---- MODULE Spec2Model ----
(***************************************************************************)
(* Model of pycont (Tricontinent C-series syringe pump control).           *)
(*                                                                         *)
(* Part I  : PumpIO -- the bus transport, several threads transacting on   *)
(*           one serial line under PumpIO.lock (SpecBus).                  *)
(* Part II : C3000Controller -- one control thread driving one pump; each  *)
(*           method is an operator over a call context (device state,      *)
(*           fates of the coming transactions, packets written so far).    *)
(***************************************************************************)
EXTENDS Integers, Sequences, FiniteSets, TLC

(***************************************************************************)
(* Bounds of the model.                                                    *)
(***************************************************************************)
\* number of threads sharing one PumpIO
NumThreads == 2
\* write_and_readline calls each thread makes
MaxCalls == 2
\* lines the serial input buffer holds at most
MaxInBuf == 1

Threads == 1..NumThreads

VARIABLES
    lock,       \* PumpIO.lock: TRUE when the threading.Lock is locked
    tpc,        \* tpc[t]: position of thread t inside write_and_readline
    waiting,    \* threads blocked in lock.acquire(), in the order they called it
    tops,       \* tops[t]: serial operations thread t did in its current call
    tres,       \* tres[t]: how thread t's last call ended
    ncalls,     \* ncalls[t]: calls of write_and_readline thread t has made
    inBuf,      \* input buffer of the serial port: whose packet each line answers
    onWire,     \* packets written whose answer has not arrived yet
    pumpObj,    \* the C3000Controller object (its configuration attributes)
    dev,        \* the state of the pump hardware it drives
    phase,      \* "ready": the control thread is between two calls
    last,       \* the last call: method, arguments, outcome, packets written
    qlock       \* a QLock object and the threads using it (<<>>: none built)

busVars == <<lock, tpc, waiting, tops, tres, ncalls, inBuf, onWire>>

pumpVars == <<pumpObj, dev, phase, last>>

vars == <<busVars, pumpVars, qlock>>

(***************************************************************************)
(* Part I: PumpIO.write_and_readline, one step per statement.              *)
(***************************************************************************)
\* positions between lock.acquire() and lock.release()
InTransaction == {"flush", "write", "readline", "release_ret", "release_exc"}

RemoveFirst(s, x) ==
    LET idx == CHOOSE i \in 1..Len(s) : s[i] = x /\ \A j \in 1..(i - 1) : s[j] # x
    IN  SubSeq(s, 1, idx - 1) \o SubSeq(s, idx + 1, Len(s))

\* a PumpIO just opened; no C3000Controller has been built on it
InitBus ==
    /\ lock = FALSE
    /\ tpc = [t \in Threads |-> "idle"]
    /\ waiting = <<>>
    /\ tops = [t \in Threads |-> <<>>]
    /\ tres = [t \in Threads |-> "none"]
    /\ ncalls = [t \in Threads |-> 0]
    /\ inBuf = <<>>
    /\ onWire = {}
    /\ qlock = <<>>
    /\ pumpObj = <<>>
    /\ dev = <<>>
    /\ phase = "off"
    /\ last = <<>>

\* The mutant of LockAcquire: the lock is taken although it is locked.
LockAcquireNoGuard(t) ==
    /\ tpc[t] = "idle"
    /\ ncalls[t] < MaxCalls
    /\ ncalls' = [ncalls EXCEPT ![t] = @ + 1]
    /\ tops' = [tops EXCEPT ![t] = <<>>]
    /\ lock' = TRUE
    /\ tpc' = [tpc EXCEPT ![t] = "flush"]
    /\ UNCHANGED <<waiting, tres, inBuf, onWire>>
    /\ UNCHANGED <<pumpVars, qlock>>

\* a thread calls write_and_readline; self.lock.acquire() finds the lock
\* unlocked and takes it at once (also when other threads are blocked on it)
LockAcquire(t) ==
    /\ tpc[t] = "idle"
    /\ ncalls[t] < MaxCalls
    /\ lock = FALSE
    /\ ncalls' = [ncalls EXCEPT ![t] = @ + 1]
    /\ tops' = [tops EXCEPT ![t] = <<>>]
    /\ lock' = TRUE
    /\ tpc' = [tpc EXCEPT ![t] = "flush"]
    /\ UNCHANGED <<waiting, tres, inBuf, onWire>>
    /\ UNCHANGED <<pumpVars, qlock>>

\* a thread calls write_and_readline; self.lock.acquire() finds the lock
\* locked and blocks
LockBlock(t) ==
    /\ tpc[t] = "idle"
    /\ ncalls[t] < MaxCalls
    /\ lock = TRUE
    /\ ncalls' = [ncalls EXCEPT ![t] = @ + 1]
    /\ tops' = [tops EXCEPT ![t] = <<>>]
    /\ waiting' = Append(waiting, t)
    /\ tpc' = [tpc EXCEPT ![t] = "blocked"]
    /\ UNCHANGED <<lock, tres, inBuf, onWire>>
    /\ UNCHANGED <<pumpVars, qlock>>

\* a blocked self.lock.acquire() returns: threading.Lock hands an unlocked
\* lock to any one of the threads blocked on it, in no defined order
LockWake(t) ==
    /\ tpc[t] = "blocked"
    /\ lock = FALSE
    /\ lock' = TRUE
    /\ waiting' = RemoveFirst(waiting, t)
    /\ tpc' = [tpc EXCEPT ![t] = "flush"]
    /\ UNCHANGED <<tops, tres, ncalls, inBuf, onWire>>
    /\ UNCHANGED <<pumpVars, qlock>>

\* self.flush_input(): reset_input_buffer drops what the buffer holds
FlushInput(t) ==
    /\ tpc[t] = "flush"
    /\ inBuf' = <<>>
    /\ tops' = [tops EXCEPT ![t] = Append(@, "flush")]
    /\ tpc' = [tpc EXCEPT ![t] = "write"]
    /\ UNCHANGED <<lock, waiting, tres, ncalls, onWire>>
    /\ UNCHANGED <<pumpVars, qlock>>

\* self.write(packet)
Write(t) ==
    /\ tpc[t] = "write"
    /\ onWire' = onWire \cup {t}
    /\ tops' = [tops EXCEPT ![t] = Append(@, "write")]
    /\ tpc' = [tpc EXCEPT ![t] = "readline"]
    /\ UNCHANGED <<lock, waiting, tres, ncalls, inBuf>>
    /\ UNCHANGED <<pumpVars, qlock>>

\* the device answers a packet (possibly after its sender gave up waiting)
DeviceAnswer ==
    /\ Len(inBuf) < MaxInBuf
    /\ \E t \in onWire :
          /\ onWire' = onWire \ {t}
          /\ inBuf' = Append(inBuf, t)
    /\ UNCHANGED <<lock, tpc, waiting, tops, tres, ncalls>>
    /\ UNCHANGED <<pumpVars, qlock>>

\* self.readline() returns a line
ReadlineMsg(t) ==
    /\ tpc[t] = "readline"
    /\ inBuf # <<>>
    /\ inBuf' = Tail(inBuf)
    /\ tops' = [tops EXCEPT ![t] = Append(@, "readline")]
    /\ tpc' = [tpc EXCEPT ![t] = "release_ret"]
    /\ UNCHANGED <<lock, waiting, tres, ncalls, onWire>>
    /\ UNCHANGED <<pumpVars, qlock>>

\* The mutant of ReadlineTimeout: the packet is written again after a timeout.
ReadlineTimeoutRetry(t) ==
    /\ tpc[t] = "readline"
    /\ inBuf = <<>>
    /\ tops' = [tops EXCEPT ![t] = Append(@, "readline")]
    /\ tpc' = [tpc EXCEPT ![t] = "write"]
    /\ UNCHANGED <<lock, waiting, tres, ncalls, inBuf, onWire>>
    /\ UNCHANGED <<pumpVars, qlock>>

\* self.readline() reads nothing within the timeout: raise PumpIOTimeOutError
ReadlineTimeout(t) ==
    /\ tpc[t] = "readline"
    /\ inBuf = <<>>
    /\ tops' = [tops EXCEPT ![t] = Append(@, "readline")]
    /\ tpc' = [tpc EXCEPT ![t] = "release_exc"]
    /\ UNCHANGED <<lock, waiting, tres, ncalls, inBuf, onWire>>
    /\ UNCHANGED <<pumpVars, qlock>>

\* try: self.lock.release(); return response
ReleaseAndReturn(t) ==
    /\ tpc[t] = "release_ret"
    /\ lock' = FALSE
    /\ tres' = [tres EXCEPT ![t] = "response"]
    /\ tpc' = [tpc EXCEPT ![t] = "idle"]
    /\ UNCHANGED <<waiting, tops, ncalls, inBuf, onWire>>
    /\ UNCHANGED <<pumpVars, qlock>>

\* The mutant of ReleaseAndRaise: the handler re-raises without releasing.
RaiseWithoutRelease(t) ==
    /\ tpc[t] = "release_exc"
    /\ tres' = [tres EXCEPT ![t] = "PumpIOTimeOutError"]
    /\ tpc' = [tpc EXCEPT ![t] = "idle"]
    /\ UNCHANGED <<lock, waiting, tops, ncalls, inBuf, onWire>>
    /\ UNCHANGED <<pumpVars, qlock>>

\* except PumpIOTimeOutError: self.lock.release(); raise err
ReleaseAndRaise(t) ==
    /\ tpc[t] = "release_exc"
    /\ lock' = FALSE
    /\ tres' = [tres EXCEPT ![t] = "PumpIOTimeOutError"]
    /\ tpc' = [tpc EXCEPT ![t] = "idle"]
    /\ UNCHANGED <<waiting, tops, ncalls, inBuf, onWire>>
    /\ UNCHANGED <<pumpVars, qlock>>

NextBus ==
    \/ \E t \in Threads : LockAcquire(t)
    \/ \E t \in Threads : LockBlock(t)
    \/ \E t \in Threads : LockWake(t)
    \/ \E t \in Threads : FlushInput(t)
    \/ \E t \in Threads : Write(t)
    \/ DeviceAnswer
    \/ \E t \in Threads : ReadlineMsg(t)
    \/ \E t \in Threads : ReadlineTimeout(t)
    \/ \E t \in Threads : ReleaseAndReturn(t)
    \/ \E t \in Threads : ReleaseAndRaise(t)

SpecBus == InitBus /\ [][NextBus]_vars

(***************************************************************************)
(* Claims about the bus transport.                                         *)
(***************************************************************************)

\* C1: transactions on one bus never interleave: at any time at most one
\* thread is between its lock.acquire() and its lock.release(), the only
\* positions where a flush, a write or a read of the serial line happens.
C1_NoInterleaving ==
    \A t, u \in Threads :
        (tpc[t] \in InTransaction /\ tpc[u] \in InTransaction) => t = u

\* a transaction is reading while another caller is blocked on the lock
C1_Witness ==
    \E t \in Threads : tpc[t] = "readline" /\ waiting # <<>>

\* C2: a read timeout does not leak the lock: whenever no transaction is
\* in progress the lock is unlocked (also after calls that timed out), and
\* every thread waiting for it can then acquire it.
C2_LockFreeAfterTimeout ==
    (\A t \in Threads : tpc[t] \notin InTransaction) =>
        /\ lock = FALSE
        /\ \A u \in Threads : tpc[u] = "blocked" => ENABLED LockWake(u)
        /\ \A u \in Threads :
              tpc[u] = "idle" /\ ncalls[u] < MaxCalls => ENABLED LockAcquire(u)

\* a call ended in PumpIOTimeOutError and another thread transacts after it
C2_Witness ==
    \E t, u \in Threads :
        /\ t # u
        /\ tres[t] = "PumpIOTimeOutError"
        /\ tpc[t] = "idle"
        /\ tpc[u] = "flush"

\* C3: the bus lock is fair: a thread that takes the lock while threads are
\* blocked in lock.acquire() is the one that has been blocked longest (no
\* waiting thread is overtaken by a thread that asked for the bus later).
C3_FifoLock ==
    [][\A t \in Threads :
          (tpc[t] \in {"idle", "blocked"} /\ tpc'[t] = "flush" /\ waiting # <<>>)
              => Head(waiting) = t]_vars

\* C4: one call is one transaction without retry: the serial operations of
\* a call are a prefix of flush, write, readline, and a call that is about
\* to release the lock (to return the line or to raise the timeout) has
\* done exactly these three, once each and in this order.
C4_OneTransaction ==
    \A t \in Threads :
        /\ \E n \in 0..3 : tops[t] = SubSeq(<<"flush", "write", "readline">>, 1, n)
        /\ tpc[t] \in {"release_ret", "release_exc"} =>
               tops[t] = <<"flush", "write", "readline">>
        /\ tpc[t] = "idle" /\ tres[t] # "none" =>
               tops[t] = <<"flush", "write", "readline">>

\* a call has raised PumpIOTimeOutError after its single write and read
C4_Witness ==
    \E t \in Threads :
        /\ tpc[t] = "idle"
        /\ tres[t] = "PumpIOTimeOutError"
        /\ tops[t] = <<"flush", "write", "readline">>

(***************************************************************************)
(* Part II: C3000Controller, one control thread, one pump.                 *)
(*                                                                         *)
(* Bytes are one-character strings, byte strings are sequences of them.    *)
(***************************************************************************)
\* controller.py, module constants
MICRO_STEP_MODE_0 == 0
MICRO_STEP_MODE_2 == 2
N_STEP_MICRO_STEP_MODE_0 == 3000
N_STEP_MICRO_STEP_MODE_2 == 24000
MAX_TOP_VELOCITY_MICRO_STEP_MODE_0 == 6000
MAX_TOP_VELOCITY_MICRO_STEP_MODE_2 == 48000
MAX_REPEAT_WRITE_AND_READ == 10
MAX_REPEAT_OPERATION == 10
VALVE_INPUT == "I"
VALVE_OUTPUT == "O"
VALVE_BYPASS == "B"
VALVE_EXTRA == "E"
VALVE_6WAY_LIST == {"1", "2", "3", "4", "5", "6"}

\* dtprotocol.py
DTStart == "/"
DTStop == "<CR>"

\* pump_protocol.py
CMD_EXECUTE == <<"R">>
CMD_INITIALIZE_NO_VALVE == <<"W">>
CMD_INITIALIZE_VALVE_ONLY == <<"w">>
CMD_MICROSTEPMODE == <<"N">>
CMD_MOVE_TO == <<"A">>
CMD_PUMP == <<"P">>
CMD_DELIVER == <<"D">>
CMD_TOPVELOCITY == <<"V">>
CMD_VALVE_INPUT == <<"I">>
CMD_VALVE_OUTPUT == <<"O">>
CMD_VALVE_BYPASS == <<"B">>
CMD_VALVE_EXTRA == <<"E">>
CMD_REPORT_STATUS == <<"Q">>
CMD_REPORT_PLUNGER_POSITION == <<"?">>
CMD_REPORT_PEAK_VELOCITY == <<"?", "2">>
CMD_REPORT_VALVE_POSITION == <<"?", "6">>
CMD_REPORT_INTIALIZED == <<"?", "1", "9">>
\* the backquote character, byte 0x60
STATUS_IDLE_ERROR_FREE == "<60>"
STATUS_BUSY_ERROR_FREE == "@"
ERROR_STATUSES_IDLE == {"a", "b", "c", "f", "g", "i", "j", "k"}
ERROR_STATUSES_BUSY == {"A", "B", "C", "F", "G", "I", "J", "K"}

\* bytes of a response that are no printable character
ETX == "<03>"
LF == "<LF>"
\* a byte that is no valid UTF-8 (line noise)
BadByte == "<FF>"
\* what str.rstrip() strips
Whitespace == {" ", "<CR>", LF}

DigitChars == <<"0", "1", "2", "3", "4", "5", "6", "7", "8", "9">>

DigitOf(ch) == CHOOSE d \in 0..9 : DigitChars[d + 1] = ch

IsDigit(ch) == \E d \in 0..9 : DigitChars[d + 1] = ch

RECURSIVE NatToStr(_)
NatToStr(n) ==
    IF n < 10 THEN <<DigitChars[n + 1]>>
    ELSE NatToStr(n \div 10) \o <<DigitChars[(n % 10) + 1]>>

\* str(n) of an int
IntToStr(n) == IF n < 0 THEN <<"-">> \o NatToStr(-n) ELSE NatToStr(n)

RECURSIVE StrToNat(_)
StrToNat(s) ==
    IF s = <<>> THEN 0
    ELSE StrToNat(SubSeq(s, 1, Len(s) - 1)) * 10 + DigitOf(s[Len(s)])

\* whether int(s) of a str succeeds (it raises ValueError otherwise)
IsNumeral(s) ==
    LET digits == IF s # <<>> /\ Head(s) = "-" THEN Tail(s) ELSE s
    IN  digits # <<>> /\ \A i \in 1..Len(digits) : IsDigit(digits[i])

\* int(s) of a str for which it succeeds
StrToInt(s) == IF Head(s) = "-" THEN 0 - StrToNat(Tail(s)) ELSE StrToNat(s)

RECURSIVE RStrip(_, _)
RStrip(s, chars) ==
    IF s # <<>> /\ s[Len(s)] \in chars THEN RStrip(SubSeq(s, 1, Len(s) - 1), chars)
    ELSE s

RECURSIVE LStrip(_, _)
LStrip(s, chars) ==
    IF s # <<>> /\ Head(s) \in chars THEN LStrip(Tail(s), chars) ELSE s

\* DTCommand(command, operand): an operand None and an empty operand give the same bytes
DTCommand(command, operand) == [command |-> command, operand |-> operand]

DTInstructionPacket(address, dtcommands) ==
    [address |-> address, dtcommands |-> dtcommands]

\* C3000Protocol.forge_packet for a single DTCommand
forge_packet(address, dtcommand, execute) ==
    DTInstructionPacket(address,
        IF execute THEN <<dtcommand, DTCommand(CMD_EXECUTE, <<>>)>>
        ELSE <<dtcommand>>)

\* DTStatus.__init__: response.decode(), None when the bytes are no UTF-8
DTStatus(response) ==
    IF \E i \in 1..Len(response) : response[i] = BadByte
    THEN [valid |-> FALSE, response |-> <<>>]
    ELSE [valid |-> TRUE, response |-> response]

\* DTStatus.decode: None, or (address, status, data); info[0] and info[1]
\* raise IndexError on a text that is too short
DTStatus_decode(st) ==
    IF ~st.valid THEN [kind |-> "None"]
    ELSE LET info == LStrip(RStrip(RStrip(st.response, Whitespace), {ETX}), {DTStart})
         IN  IF Len(info) < 2 THEN [kind |-> "IndexError"]
             ELSE [kind |-> "tuple", address |-> info[1], status |-> info[2],
                   data |-> SubSeq(info, 3, Len(info))]

\* C3000Protocol.decode_packet
decode_packet(dtresponse) == DTStatus_decode(DTStatus(dtresponse))

(***************************************************************************)
(* The pump hardware (the external device on the serial line).             *)
(* A motion or valve command is carried out when it is received and the    *)
(* pump then reports busy to the next BusyPolls status queries.  A pump    *)
(* whose plunger sticks fails its next `fails` initialisations: it takes   *)
(* the command and stays uninitialised.  A pump whose valve sticks leaves  *)
(* the valve where it is for its next `stuck` valve commands.              *)
(***************************************************************************)
\* status queries a pump answers busy after a motion command
BusyPolls == 1

DevStatus(d) == IF d.busy > 0 THEN STATUS_BUSY_ERROR_FREE ELSE STATUS_IDLE_ERROR_FREE

Lower(v) ==
    CASE v = "I" -> "i" [] v = "O" -> "o" [] v = "B" -> "b" [] v = "E" -> "e"

\* the pump carries out the command string `cmd` (opcode, then operand):
\* its new state, the status byte and the data of its answer
DeviceExec(d, cmd, nsteps, maxvel) ==
    LET op == Head(cmd)
        arg == Tail(cmd)
        n == IF IsNumeral(arg) THEN StrToInt(arg) ELSE 0 - 1
        ack(d2) == [dev |-> d2, status |-> DevStatus(d), data |-> <<>>]
        report(data) == [dev |-> d, status |-> DevStatus(d), data |-> data]
        reject(code) == [dev |-> d, status |-> code, data |-> <<>>]
    IN  CASE op = "Q" ->
               [dev |-> [d EXCEPT !.busy = IF @ > 0 THEN @ - 1 ELSE 0],
                status |-> DevStatus(d), data |-> <<>>]
          [] cmd = CMD_REPORT_PLUNGER_POSITION -> report(IntToStr(d.pos))
          [] cmd = CMD_REPORT_PEAK_VELOCITY -> report(IntToStr(d.vel))
          [] cmd = CMD_REPORT_VALVE_POSITION -> report(<<d.valve>>)
          [] cmd = CMD_REPORT_INTIALIZED -> report(IF d.init THEN <<"1">> ELSE <<"0">>)
          [] op = "P" ->
               IF IsNumeral(arg) /\ n >= 0 /\ d.pos + n <= nsteps
               THEN ack([d EXCEPT !.pos = @ + n, !.busy = BusyPolls])
               ELSE reject("c")
          [] op = "D" ->
               IF IsNumeral(arg) /\ n >= 0 /\ n <= d.pos
               THEN ack([d EXCEPT !.pos = @ - n, !.busy = BusyPolls])
               ELSE reject("c")
          [] op = "A" ->
               IF IsNumeral(arg) /\ n >= 0 /\ n <= nsteps
               THEN ack([d EXCEPT !.pos = n, !.busy = BusyPolls])
               ELSE reject("c")
          [] op = "V" ->
               IF IsNumeral(arg) /\ n >= 1 /\ n <= maxvel
               THEN ack([d EXCEPT !.vel = n])
               ELSE reject("c")
          [] op \in {"I", "O", "B", "E"} /\ arg = <<>> ->
               IF d.stuck > 0
               THEN ack([d EXCEPT !.stuck = @ - 1, !.busy = BusyPolls])
               ELSE ack([d EXCEPT !.valve = Lower(op), !.busy = BusyPolls])
          [] op = "I" /\ Len(arg) = 1 /\ arg[1] \in VALVE_6WAY_LIST ->
               IF d.stuck > 0
               THEN ack([d EXCEPT !.stuck = @ - 1, !.busy = BusyPolls])
               ELSE ack([d EXCEPT !.valve = arg[1], !.busy = BusyPolls])
          [] op = "w" -> ack([d EXCEPT !.busy = BusyPolls])
          [] op = "W" ->
               IF d.fails > 0
               THEN ack([d EXCEPT !.fails = @ - 1, !.busy = BusyPolls])
               ELSE ack([d EXCEPT !.pos = 0, !.init = TRUE, !.busy = BusyPolls])
          [] op = "N" -> ack(d)
          [] OTHER -> reject("b")

\* check_top_velocity_within_range: max_range of a microstep mode
MaxRange(micro_step_mode) ==
    IF micro_step_mode = MICRO_STEP_MODE_0 THEN MAX_TOP_VELOCITY_MICRO_STEP_MODE_0
    ELSE MAX_TOP_VELOCITY_MICRO_STEP_MODE_2

\* what happens to one exchange on the line
OkFate == [kind |-> "ok", status |-> ""]
TimeoutFate == [kind |-> "timeout", status |-> ""]
GarbledFate == [kind |-> "garbled", status |-> ""]
TruncatedFate == [kind |-> "truncated", status |-> ""]
StatusFate(x) == [kind |-> "status", status |-> x]

\* the line of an answer: '/', the master's address, status, data, ETX CR LF
Frame(status, data) == <<DTStart, "0", status>> \o data \o <<ETX, "<CR>", LF>>

\* the command string of a packet: its first command with its operand
PacketCmd(packet) == packet.dtcommands[1].command \o packet.dtcommands[1].operand

\* the pump and the line answer a packet: the new state of the pump and the
\* line read ("" stands for no line within the timeout).  A faulty exchange
\* (timeout, noise, truncation, an error status) leaves the pump as it was,
\* except that a report command still reports under an error status.
DeviceAnswerTo(self, d, packet, fate) ==
    LET Answer(r) ==
            CASE fate.kind = "ok" ->
                   [dev |-> r.dev, timeout |-> FALSE, line |-> Frame(r.status, r.data)]
              [] fate.kind = "timeout" ->
                   [dev |-> d, timeout |-> TRUE, line |-> <<>>]
              [] fate.kind = "garbled" ->
                   [dev |-> d, timeout |-> FALSE, line |-> <<DTStart, BadByte, "<CR>", LF>>]
              [] fate.kind = "truncated" ->
                   [dev |-> d, timeout |-> FALSE, line |-> <<DTStart, "0", ETX, "<CR>", LF>>]
              [] fate.kind = "status" ->
                   IF Head(PacketCmd(packet)) \in {"Q", "?"}
                   THEN [dev |-> r.dev, timeout |-> FALSE, line |-> Frame(fate.status, r.data)]
                   ELSE [dev |-> d, timeout |-> FALSE, line |-> Frame(fate.status, <<>>)]
    IN  Answer(DeviceExec(d, PacketCmd(packet), self.number_of_steps,
                          MaxRange(self.micro_step_mode)))

(***************************************************************************)
(* A call context c: the pump hardware (dev), the fates of the coming      *)
(* exchanges (fates; an exchange past their end goes well), the packets    *)
(* written so far (sent), the lines read back (lines, <<>> for a timeout), *)
(* the exception in flight (exc, with the error code of a PumpHWError) and *)
(* the value returned by the last call (ret).                              *)
(***************************************************************************)
NewContext(d, fates) ==
    [dev |-> d, fates |-> fates, sent |-> <<>>, lines |-> <<>>, exc |-> "none",
     code |-> "", who |-> "", ret |-> "None"]

Return(c, value) == [c EXCEPT !.ret = value]

Raise(c, exception) == [c EXCEPT !.exc = exception]

\* an exception whose message names the pump
RaiseNamed(c, exception, name) == [c EXCEPT !.exc = exception, !.who = name]

Failed(c) == c.exc # "none"

\* PumpIO.write_and_readline as the single control thread runs it: the lock
\* is free before and after, one packet is written, one line is read
write_and_readline(self, c, packet) ==
    LET Written(c1, line) ==
            [c1 EXCEPT !.fates = IF @ = <<>> THEN <<>> ELSE Tail(@),
                       !.sent = Append(@, packet),
                       !.lines = Append(@, line)]
        Readline(a) ==
            IF a.timeout
            THEN Raise(Written([c EXCEPT !.dev = a.dev], <<>>), "PumpIOTimeOutError")
            ELSE Return(Written([c EXCEPT !.dev = a.dev], a.line), a.line)
    IN  Readline(DeviceAnswerTo(self, c.dev, packet,
                                IF c.fates = <<>> THEN OkFate ELSE Head(c.fates)))

\* The mutant of WriteAndReadLoop: a timeout is not caught.
RECURSIVE WriteAndReadLoopNoCatch(_, _, _, _, _)
WriteAndReadLoopNoCatch(self, c, packet, max_repeat, i) ==
    LET Decoded(c1, decoded_response) ==
            IF decoded_response.kind = "IndexError" THEN Raise(c1, "IndexError")
            ELSE IF decoded_response.kind # "None" THEN Return(c1, decoded_response)
            ELSE WriteAndReadLoopNoCatch(self, c1, packet, max_repeat, i + 1)
        Attempt(c1) ==
            IF c1.exc = "PumpIOTimeOutError" THEN c1
            ELSE Decoded(c1, decode_packet(c1.ret))
    IN  IF i >= max_repeat THEN RaiseNamed(c, "ControllerRepeatedError", self.name)
        ELSE Attempt(write_and_readline(self, c, packet))

\* the loop of write_and_read_from_pump from its iteration i on
RECURSIVE WriteAndReadLoop(_, _, _, _, _)
WriteAndReadLoop(self, c, packet, max_repeat, i) ==
    LET Decoded(c1, decoded_response) ==
            IF decoded_response.kind = "IndexError" THEN Raise(c1, "IndexError")
            ELSE IF decoded_response.kind # "None" THEN Return(c1, decoded_response)
            ELSE WriteAndReadLoop(self, c1, packet, max_repeat, i + 1)
        Attempt(c1) ==
            IF c1.exc = "PumpIOTimeOutError"
            THEN WriteAndReadLoop(self, [c1 EXCEPT !.exc = "none"], packet, max_repeat, i + 1)
            ELSE Decoded(c1, decode_packet(c1.ret))
    IN  IF i >= max_repeat THEN RaiseNamed(c, "ControllerRepeatedError", self.name)
        ELSE Attempt(write_and_readline(self, c, packet))

\* C3000Controller.write_and_read_from_pump
write_and_read_from_pump(self, c, packet, max_repeat) ==
    WriteAndReadLoop(self, c, packet, max_repeat, 0)

\* PumpHWError.__init__: self.error_code = error_code.lower()
LowerCode(status) ==
    IF status \in ERROR_STATUSES_BUSY
    THEN CHOOSE x \in ERROR_STATUSES_IDLE :
             <<status, x>> \in {<<"A", "a">>, <<"B", "b">>, <<"C", "c">>, <<"F", "f">>,
                                <<"G", "g">>, <<"I", "i">>, <<"J", "j">>, <<"K", "k">>}
    ELSE status

\* The mutant of is_idle: an error status of an idle pump counts as idle.
is_idle_ErrorIsIdle(self, c) ==
    LET Status(c1, status) ==
            IF status = STATUS_IDLE_ERROR_FREE THEN Return(c1, TRUE)
            ELSE IF status = STATUS_BUSY_ERROR_FREE THEN Return(c1, FALSE)
            ELSE IF status \in ERROR_STATUSES_BUSY
                 THEN [RaiseNamed(c1, "PumpHWError", self.name) EXCEPT !.code = LowerCode(status)]
            ELSE IF status \in ERROR_STATUSES_IDLE THEN Return(c1, TRUE)
            ELSE Raise(c1, "ValueError")
        Answered(c1) == IF Failed(c1) THEN c1 ELSE Status(c1, c1.ret.status)
    IN  Answered(write_and_read_from_pump(self, c,
                     forge_packet(self.address, DTCommand(CMD_REPORT_STATUS, <<>>), TRUE),
                     MAX_REPEAT_WRITE_AND_READ))

\* C3000Controller.is_idle
is_idle(self, c) ==
    LET Status(c1, status) ==
            IF status = STATUS_IDLE_ERROR_FREE THEN Return(c1, TRUE)
            ELSE IF status = STATUS_BUSY_ERROR_FREE THEN Return(c1, FALSE)
            ELSE IF status \in ERROR_STATUSES_BUSY
                 THEN [RaiseNamed(c1, "PumpHWError", self.name) EXCEPT !.code = LowerCode(status)]
            ELSE IF status \in ERROR_STATUSES_IDLE
                 THEN [RaiseNamed(c1, "PumpHWError", self.name) EXCEPT !.code = LowerCode(status)]
            ELSE Raise(c1, "ValueError")
        Answered(c1) == IF Failed(c1) THEN c1 ELSE Status(c1, c1.ret.status)
    IN  Answered(write_and_read_from_pump(self, c,
                     forge_packet(self.address, DTCommand(CMD_REPORT_STATUS, <<>>), TRUE),
                     MAX_REPEAT_WRITE_AND_READ))

(***************************************************************************)
(* Volumes are exact rationals: a volume is a whole number of ticks,       *)
(* VolDen ticks to the millilitre.  An optional argument is <<>> (None)    *)
(* or <<value>>.                                                           *)
(***************************************************************************)
\* ticks per millilitre; every steps_per_ml of the model divides it
VolDen == 9600

\* int(a / b) for a >= 0, b > 0: the fraction is dropped
RoundDown(a, b) == a \div b

\* int(round(a / b)) for b > 0: Python 3 rounds a half to the even neighbour
RoundHalfEven(a, b) ==
    LET q == a \div b
        r == a % b
    IN  IF 2 * r < b THEN q
        ELSE IF 2 * r > b THEN q + 1
        ELSE IF q % 2 = 0 THEN q ELSE q + 1

\* C3000Controller.__init__ (total_volume in ticks)
C3000Controller(name, address, total_volume, micro_step_mode, top_velocity) ==
    LET number_of_steps ==
            IF micro_step_mode = MICRO_STEP_MODE_0 THEN N_STEP_MICRO_STEP_MODE_0
            ELSE N_STEP_MICRO_STEP_MODE_2
    IN  [name |-> name, address |-> address,
         micro_step_mode |-> micro_step_mode,
         number_of_steps |-> number_of_steps,
         total_volume |-> total_volume,
         steps_per_ml |-> (number_of_steps * VolDen) \div total_volume,
         default_top_velocity |-> top_velocity,
         initialize_valve_position |-> VALVE_INPUT]

\* C3000Controller.volume_to_step
volume_to_step(self, volume_in_ml) ==
    RoundHalfEven(volume_in_ml * self.steps_per_ml, VolDen)

\* C3000Controller.step_to_volume (in ticks)
step_to_volume(self, step) == (step * VolDen) \div self.steps_per_ml

\* a report command whose data is read with int(): the int in ret
ReportInt(self, c, command) ==
    LET Answered(c1) ==
            IF Failed(c1) THEN c1
            ELSE IF ~IsNumeral(c1.ret.data) THEN Raise(c1, "ValueError")
            ELSE Return(c1, StrToInt(c1.ret.data))
    IN  Answered(write_and_read_from_pump(self, c,
                     forge_packet(self.address, DTCommand(command, <<>>), TRUE),
                     MAX_REPEAT_WRITE_AND_READ))

\* The mutant of is_busy: the answer of is_idle is not negated.
is_busy_NotNegated(self, c) == is_idle(self, c)

\* C3000Controller.is_busy
is_busy(self, c) ==
    LET Answered(c1) == IF Failed(c1) THEN c1 ELSE Return(c1, ~c1.ret)
    IN  Answered(is_idle(self, c))

\* C3000Controller.wait_until_idle
RECURSIVE wait_until_idle(_, _)
wait_until_idle(self, c) ==
    LET Polled(c1) ==
            IF Failed(c1) THEN c1
            ELSE IF c1.ret THEN wait_until_idle(self, c1)
            ELSE Return(c1, "None")
    IN  Polled(is_busy(self, c))

\* C3000Controller.get_top_velocity
get_top_velocity(self, c) == ReportInt(self, c, CMD_REPORT_PEAK_VELOCITY)

\* C3000Controller.get_plunger_position
get_plunger_position(self, c) == ReportInt(self, c, CMD_REPORT_PLUNGER_POSITION)

\* C3000Controller.check_top_velocity_within_range
check_top_velocity_within_range(self, c, top_velocity) ==
    IF top_velocity \in 1..MaxRange(self.micro_step_mode) THEN Return(c, TRUE)
    ELSE Raise(c, "ValueError")

\* The mutant of SetTopVelocityLoop: the velocity is set without being
\* read first.
SetTopVelocityLoopNoRead(self, c, top_velocity, max_repeat, secure, i) ==
    LET Written(c3) == IF Failed(c3) THEN c3 ELSE Return(c3, TRUE)
        Checked(c2) ==
            IF Failed(c2) THEN c2
            ELSE Written(write_and_read_from_pump(self, c2,
                             forge_packet(self.address,
                                 DTCommand(CMD_TOPVELOCITY, IntToStr(top_velocity)), TRUE),
                             MAX_REPEAT_WRITE_AND_READ))
    IN  IF i >= max_repeat THEN RaiseNamed(c, "ControllerRepeatedError", self.name)
        ELSE Checked(check_top_velocity_within_range(self, c, top_velocity))

\* the loop of set_top_velocity from its iteration i on
RECURSIVE SetTopVelocityLoop(_, _, _, _, _, _)
SetTopVelocityLoop(self, c, top_velocity, max_repeat, secure, i) ==
    LET Written(c3) ==
            IF Failed(c3) THEN c3
            ELSE IF ~secure THEN Return(c3, TRUE)
            ELSE SetTopVelocityLoop(self, c3, top_velocity, max_repeat, secure, i + 1)
        Checked(c2) ==
            IF Failed(c2) THEN c2
            ELSE Written(write_and_read_from_pump(self, c2,
                             forge_packet(self.address,
                                 DTCommand(CMD_TOPVELOCITY, IntToStr(top_velocity)), TRUE),
                             MAX_REPEAT_WRITE_AND_READ))
        Read(c1) ==
            IF Failed(c1) THEN c1
            ELSE IF c1.ret = top_velocity THEN Return(c1, TRUE)
            ELSE Checked(check_top_velocity_within_range(self, c1, top_velocity))
    IN  IF i >= max_repeat THEN RaiseNamed(c, "ControllerRepeatedError", self.name)
        ELSE Read(get_top_velocity(self, c))

\* C3000Controller.set_top_velocity
set_top_velocity(self, c, top_velocity, max_repeat, secure) ==
    SetTopVelocityLoop(self, c, top_velocity, max_repeat, secure, 0)

\* C3000Controller.ensure_default_top_velocity
ensure_default_top_velocity(self, c, secure) ==
    LET Set(c2) == IF Failed(c2) THEN c2 ELSE Return(c2, "None")
        Read(c1) ==
            IF Failed(c1) THEN c1
            ELSE IF c1.ret # self.default_top_velocity
                 THEN Set(set_top_velocity(self, c1, self.default_top_velocity,
                                           MAX_REPEAT_OPERATION, secure))
            ELSE Return(c1, "None")
    IN  Read(get_top_velocity(self, c))

\* C3000Controller.get_raw_valve_position
get_raw_valve_position(self, c) ==
    LET Answered(c1) == IF Failed(c1) THEN c1 ELSE Return(c1, c1.ret.data)
    IN  Answered(write_and_read_from_pump(self, c,
                     forge_packet(self.address, DTCommand(CMD_REPORT_VALVE_POSITION, <<>>), TRUE),
                     MAX_REPEAT_WRITE_AND_READ))

\* the loop of get_valve_position from its iteration i on
RECURSIVE GetValvePositionLoop(_, _, _, _)
GetValvePositionLoop(self, c, max_repeat, i) ==
    LET Position(c1, raw_valve_position) ==
            IF raw_valve_position = <<"i">> THEN Return(c1, VALVE_INPUT)
            ELSE IF raw_valve_position = <<"o">> THEN Return(c1, VALVE_OUTPUT)
            ELSE IF raw_valve_position = <<"b">> THEN Return(c1, VALVE_BYPASS)
            ELSE IF raw_valve_position = <<"e">> THEN Return(c1, VALVE_EXTRA)
            ELSE IF Len(raw_valve_position) = 1 /\ raw_valve_position[1] \in VALVE_6WAY_LIST
                 THEN Return(c1, raw_valve_position[1])
            ELSE GetValvePositionLoop(self, c1, max_repeat, i + 1)
        Read(c1) == IF Failed(c1) THEN c1 ELSE Position(c1, c1.ret)
    IN  IF i >= max_repeat THEN Raise(c, "ValueError")
        ELSE Read(get_raw_valve_position(self, c))

\* C3000Controller.get_valve_position
get_valve_position(self, c, max_repeat) == GetValvePositionLoop(self, c, max_repeat, 0)

\* the valve_position_packet chosen by set_valve_position (positions it knows)
ValvePacket(self, valve_position) ==
    forge_packet(self.address,
        CASE valve_position = VALVE_INPUT -> DTCommand(CMD_VALVE_INPUT, <<>>)
          [] valve_position = VALVE_OUTPUT -> DTCommand(CMD_VALVE_OUTPUT, <<>>)
          [] valve_position = VALVE_BYPASS -> DTCommand(CMD_VALVE_BYPASS, <<>>)
          [] valve_position = VALVE_EXTRA -> DTCommand(CMD_VALVE_EXTRA, <<>>)
          [] OTHER -> DTCommand(CMD_VALVE_INPUT \o <<valve_position>>, <<>>),
        TRUE)

ValveKnown(valve_position) ==
    valve_position \in {VALVE_INPUT, VALVE_OUTPUT, VALVE_BYPASS, VALVE_EXTRA}
                           \cup VALVE_6WAY_LIST

\* The mutant of SetValvePositionLoop: after the valve command and the wait
\* the valve is taken to be in position, it is not read again.
SetValvePositionLoopNoReadBack(self, c, valve_position, max_repeat, secure, i) ==
    LET Waited(c3) == IF Failed(c3) THEN c3 ELSE Return(c3, TRUE)
        Written(c2) ==
            IF Failed(c2) THEN c2
            ELSE IF ~secure THEN Return(c2, TRUE)
            ELSE Waited(wait_until_idle(self, c2))
        Read(c1) ==
            IF Failed(c1) THEN c1
            ELSE IF c1.ret = valve_position THEN Return(c1, TRUE)
            ELSE IF ~ValveKnown(valve_position) THEN Raise(c1, "ValueError")
            ELSE Written(write_and_read_from_pump(self, c1, ValvePacket(self, valve_position),
                             MAX_REPEAT_WRITE_AND_READ))
    IN  IF i >= max_repeat THEN RaiseNamed(c, "ControllerRepeatedError", self.name)
        ELSE Read(get_valve_position(self, c, MAX_REPEAT_OPERATION))

\* the loop of set_valve_position from its iteration i on
RECURSIVE SetValvePositionLoop(_, _, _, _, _, _)
SetValvePositionLoop(self, c, valve_position, max_repeat, secure, i) ==
    LET Waited(c3) ==
            IF Failed(c3) THEN c3
            ELSE SetValvePositionLoop(self, c3, valve_position, max_repeat, secure, i + 1)
        Written(c2) ==
            IF Failed(c2) THEN c2
            ELSE IF ~secure THEN Return(c2, TRUE)
            ELSE Waited(wait_until_idle(self, c2))
        Read(c1) ==
            IF Failed(c1) THEN c1
            ELSE IF c1.ret = valve_position THEN Return(c1, TRUE)
            ELSE IF ~ValveKnown(valve_position) THEN Raise(c1, "ValueError")
            ELSE Written(write_and_read_from_pump(self, c1, ValvePacket(self, valve_position),
                             MAX_REPEAT_WRITE_AND_READ))
    IN  IF i >= max_repeat THEN RaiseNamed(c, "ControllerRepeatedError", self.name)
        ELSE Read(get_valve_position(self, c, MAX_REPEAT_OPERATION))

\* The mutant of set_valve_position: secure is taken to be True.
set_valve_position_AlwaysSecure(self, c, valve_position, max_repeat, secure) ==
    SetValvePositionLoop(self, c, valve_position, max_repeat, TRUE, 0)

\* C3000Controller.set_valve_position
set_valve_position(self, c, valve_position, max_repeat, secure) ==
    SetValvePositionLoop(self, c, valve_position, max_repeat, secure, 0)

\* the velocity set-up shared by pump, deliver and go_to_volume
SetSpeed(self, c, speed, secure) ==
    IF speed # <<>> THEN set_top_velocity(self, c, speed[1], MAX_REPEAT_OPERATION, secure)
    ELSE ensure_default_top_velocity(self, c, secure)

\* the valve set-up shared by pump and deliver
SetValve(self, c, valve, secure) ==
    IF valve # <<>> THEN set_valve_position(self, c, valve[1], MAX_REPEAT_OPERATION, secure)
    ELSE c

\* the motion command of pump, deliver and go_to_volume and what follows it
Move(self, c, command, steps, wait) ==
    LET Waited(c2) == IF Failed(c2) THEN c2 ELSE Return(c2, TRUE)
        Written(c1) ==
            IF Failed(c1) THEN c1
            ELSE IF wait THEN Waited(wait_until_idle(self, c1))
            ELSE Return(c1, TRUE)
    IN  Written(write_and_read_from_pump(self, c,
                    forge_packet(self.address, DTCommand(command, IntToStr(steps)), TRUE),
                    MAX_REPEAT_WRITE_AND_READ))

\* C3000Controller.remaining_steps
remaining_steps(self, c) ==
    LET Read(c1) == IF Failed(c1) THEN c1 ELSE Return(c1, self.number_of_steps - c1.ret)
    IN  Read(get_plunger_position(self, c))

\* C3000Controller.is_volume_pumpable
is_volume_pumpable(self, c, volume_in_ml) ==
    LET steps == volume_to_step(self, volume_in_ml)
        Read(c1) == IF Failed(c1) THEN c1 ELSE Return(c1, steps <= c1.ret)
    IN  Read(remaining_steps(self, c))

\* The mutant of pump: the volume is not checked.
pump_Unchecked(self, c, volume_in_ml, from_valve, speed_in, wait, secure) ==
    LET steps_to_pump == volume_to_step(self, volume_in_ml)
        ValveSet(c3) ==
            IF Failed(c3) THEN c3 ELSE Move(self, c3, CMD_PUMP, steps_to_pump, wait)
        SpeedSet(c2) ==
            IF Failed(c2) THEN c2 ELSE ValveSet(SetValve(self, c2, from_valve, secure))
    IN  SpeedSet(SetSpeed(self, c, speed_in, secure))

\* C3000Controller.pump
pump(self, c, volume_in_ml, from_valve, speed_in, wait, secure) ==
    LET steps_to_pump == volume_to_step(self, volume_in_ml)
        ValveSet(c3) ==
            IF Failed(c3) THEN c3 ELSE Move(self, c3, CMD_PUMP, steps_to_pump, wait)
        SpeedSet(c2) ==
            IF Failed(c2) THEN c2 ELSE ValveSet(SetValve(self, c2, from_valve, secure))
        Checked(c1) ==
            IF Failed(c1) THEN c1
            ELSE IF ~c1.ret THEN Return(c1, FALSE)
            ELSE SpeedSet(SetSpeed(self, c1, speed_in, secure))
    IN  Checked(is_volume_pumpable(self, c, volume_in_ml))

\* The mutant of is_volume_deliverable: every volume is deliverable.
is_volume_deliverable_AnyVolume(self, c, volume_in_ml) ==
    LET Read(c1) == IF Failed(c1) THEN c1 ELSE Return(c1, TRUE)
    IN  Read(get_plunger_position(self, c))

\* C3000Controller.is_volume_deliverable
is_volume_deliverable(self, c, volume_in_ml) ==
    LET steps == volume_to_step(self, volume_in_ml)
        Read(c1) == IF Failed(c1) THEN c1 ELSE Return(c1, steps <= c1.ret)
    IN  Read(get_plunger_position(self, c))

\* C3000Controller.deliver
deliver(self, c, volume_in_ml, to_valve, speed_out, wait, secure) ==
    LET steps_to_deliver == volume_to_step(self, volume_in_ml)
        ValveSet(c3) ==
            IF Failed(c3) THEN c3 ELSE Move(self, c3, CMD_DELIVER, steps_to_deliver, wait)
        SpeedSet(c2) ==
            IF Failed(c2) THEN c2 ELSE ValveSet(SetValve(self, c2, to_valve, secure))
        Checked(c1) ==
            IF Failed(c1) THEN c1
            ELSE IF ~c1.ret THEN Return(c1, FALSE)
            ELSE IF volume_in_ml = 0 THEN Return(c1, TRUE)
            ELSE SpeedSet(SetSpeed(self, c1, speed_out, secure))
    IN  Checked(is_volume_deliverable(self, c, volume_in_ml))

\* C3000Controller.is_volume_valid
is_volume_valid(self, volume_in_ml) ==
    0 <= volume_in_ml /\ volume_in_ml <= self.total_volume

\* The mutant of go_to_volume: the volume is not checked.
go_to_volume_Unchecked(self, c, volume_in_ml, speed, wait, secure) ==
    LET steps == volume_to_step(self, volume_in_ml)
        SpeedSet(c2) ==
            IF Failed(c2) THEN c2 ELSE Move(self, c2, CMD_MOVE_TO, steps, wait)
    IN  SpeedSet(SetSpeed(self, c, speed, secure))

\* C3000Controller.go_to_volume
go_to_volume(self, c, volume_in_ml, speed, wait, secure) ==
    LET steps == volume_to_step(self, volume_in_ml)
        SpeedSet(c2) ==
            IF Failed(c2) THEN c2 ELSE Move(self, c2, CMD_MOVE_TO, steps, wait)
    IN  IF ~is_volume_valid(self, volume_in_ml) THEN Return(c, FALSE)
        ELSE SpeedSet(SetSpeed(self, c, speed, secure))

(***************************************************************************)
(* The calls of the control thread.  A call runs to its end in one step    *)
(* (the thread is alone on its bus); `last` records it until the thread    *)
(* goes on.                                                                *)
(***************************************************************************)
\* transactions into a call at which a fault may start
MaxFaultAt == 4
\* max_repeat values tried for write_and_read_from_pump
MaxAttempts == 2

\* the syringe of the pump: 5 ml, in ticks
SyringeVolume == 5 * VolDen

OptNone == <<>>
Opt(x) == <<x>>

\* volumes asked for: nothing, half the syringe, the syringe, a tick more
\* than the syringe (less than half a step more), a millilitre more
Volumes == {0, SyringeVolume \div 2, SyringeVolume, SyringeVolume + 1,
            SyringeVolume + VolDen}

\* how pump, deliver and go_to_volume are called
Styles ==
    {[valve |-> OptNone, speed |-> OptNone, wait |-> FALSE, secure |-> TRUE],
     [valve |-> Opt("O"), speed |-> Opt(3000), wait |-> TRUE, secure |-> TRUE],
     [valve |-> Opt("O"), speed |-> OptNone, wait |-> FALSE, secure |-> FALSE],
     [valve |-> OptNone, speed |-> Opt(3000), wait |-> TRUE, secure |-> FALSE]}
Speeds == {0, 3000, 6000, 6001, 48001}
ValveArgs == {"I", "O", "3", "X"}
StatusBytes ==
    {STATUS_IDLE_ERROR_FREE, STATUS_BUSY_ERROR_FREE, "z"}
        \cup ERROR_STATUSES_IDLE \cup ERROR_STATUSES_BUSY

Rep(n, x) == [i \in 1..n |-> x]

\* the faults of a call: none, or from some exchange on one faulty exchange
\* or as many in a row as write_and_read_from_pump tries
FaultFates == {TimeoutFate, TruncatedFate, StatusFate("i")}
Scripts ==
    {<<>>}
    \cup {Rep(at - 1, OkFate) \o <<f>> : at \in 1..MaxFaultAt, f \in FaultFates}
    \cup {Rep(at - 1, OkFate) \o Rep(MAX_REPEAT_WRITE_AND_READ, f) :
              at \in 1..MaxFaultAt, f \in {GarbledFate}}

\* every sequence of at most n fates out of the set S
RECURSIVE SeqsUpTo(_, _)
SeqsUpTo(S, n) ==
    IF n = 0 THEN {<<>>}
    ELSE LET shorter == SeqsUpTo(S, n - 1)
         IN  shorter \cup {Append(q, x) : q \in {r \in shorter : Len(r) = n - 1}, x \in S}

\* the command strings of the packets a call wrote
Cmds(sent) == [i \in 1..Len(sent) |-> PacketCmd(sent[i])]

\* the record of a call that ended in context c
Record(op, args, c) ==
    [op |-> op, args |-> args, exc |-> c.exc,
     code |-> IF c.exc = "PumpHWError" THEN c.code ELSE "", who |-> c.who,
     ret |-> IF Failed(c) THEN "None" ELSE c.ret,
     cmds |-> Cmds(c.sent), dev0 |-> dev]

Finish(op, args, c) ==
    /\ dev' = c.dev
    /\ last' = Record(op, args, c)
    /\ phase' = "returned"
    /\ UNCHANGED <<pumpObj, busVars, qlock>>

\* a controller built on a freshly opened PumpIO; the pump it drives is in
\* whatever state it was left in
InitPump ==
    /\ lock = FALSE
    /\ tpc = [t \in Threads |-> "idle"]
    /\ waiting = <<>>
    /\ tops = [t \in Threads |-> <<>>]
    /\ tres = [t \in Threads |-> "none"]
    /\ ncalls = [t \in Threads |-> 0]
    /\ inBuf = <<>>
    /\ onWire = {}
    /\ qlock = <<>>
    /\ pumpObj \in {C3000Controller("water", "1", SyringeVolume, m, 6000) :
                       m \in {MICRO_STEP_MODE_0, MICRO_STEP_MODE_2}}
    /\ dev \in [pos : {0, pumpObj.number_of_steps}, valve : {"i", "o"},
                vel : {3000, 6000}, init : {TRUE}, busy : {0}, fails : {0},
                stuck : {0}]
    /\ phase = "ready"
    /\ last = <<>>

CallWriteAndReadFromPump ==
    /\ phase = "ready"
    /\ \E max_repeat \in 0..MaxAttempts :
       \E fates \in SeqsUpTo({OkFate, TimeoutFate, GarbledFate, TruncatedFate}, MaxAttempts) :
          Finish("write_and_read_from_pump", [max_repeat |-> max_repeat, fates |-> fates],
                 write_and_read_from_pump(pumpObj, NewContext(dev, fates),
                     forge_packet(pumpObj.address, DTCommand(CMD_REPORT_STATUS, <<>>), TRUE),
                     max_repeat))

CallIsIdle ==
    /\ phase = "ready"
    /\ \E fates \in {<<>>, <<TruncatedFate>>}
                     \cup {<<StatusFate(x)>> : x \in StatusBytes}
                     \cup {<<TimeoutFate, StatusFate(x)>> : x \in StatusBytes} :
          Finish("is_idle", [fates |-> fates], is_idle(pumpObj, NewContext(dev, fates)))

CallSetTopVelocity ==
    /\ phase = "ready"
    /\ \E top_velocity \in Speeds, secure \in BOOLEAN, fates \in Scripts :
          Finish("set_top_velocity",
                 [top_velocity |-> top_velocity, secure |-> secure, fates |-> fates],
                 set_top_velocity(pumpObj, NewContext(dev, fates), top_velocity,
                                  MAX_REPEAT_OPERATION, secure))

CallSetValvePosition ==
    /\ phase = "ready"
    /\ \E valve_position \in ValveArgs, secure \in BOOLEAN, fates \in Scripts :
          Finish("set_valve_position",
                 [valve_position |-> valve_position, secure |-> secure, fates |-> fates],
                 set_valve_position(pumpObj, NewContext(dev, fates), valve_position,
                                    MAX_REPEAT_OPERATION, secure))

CallPump ==
    /\ phase = "ready"
    /\ \E volume_in_ml \in Volumes, style \in Styles, fates \in Scripts :
          Finish("pump",
                 [volume_in_ml |-> volume_in_ml, style |-> style, fates |-> fates],
                 pump(pumpObj, NewContext(dev, fates), volume_in_ml, style.valve,
                      style.speed, style.wait, style.secure))

CallDeliver ==
    /\ phase = "ready"
    /\ \E volume_in_ml \in Volumes, style \in Styles, fates \in Scripts :
          Finish("deliver",
                 [volume_in_ml |-> volume_in_ml, style |-> style, fates |-> fates],
                 deliver(pumpObj, NewContext(dev, fates), volume_in_ml, style.valve,
                         style.speed, style.wait, style.secure))

CallGoToVolume ==
    /\ phase = "ready"
    /\ \E volume_in_ml \in Volumes \cup {0 - VolDen}, style \in Styles, fates \in Scripts :
          Finish("go_to_volume",
                 [volume_in_ml |-> volume_in_ml, style |-> style, fates |-> fates],
                 go_to_volume(pumpObj, NewContext(dev, fates), volume_in_ml,
                              style.speed, style.wait, style.secure))

\* the control thread goes on to its next call
GoOn ==
    /\ phase = "returned"
    /\ phase' = "ready"
    /\ last' = <<>>
    /\ UNCHANGED <<pumpObj, dev, busVars, qlock>>

NextPump ==
    \/ CallWriteAndReadFromPump
    \/ CallIsIdle
    \/ CallSetTopVelocity
    \/ CallSetValvePosition
    \/ CallPump
    \/ CallDeliver
    \/ CallGoToVolume
    \/ GoOn

SpecPump == InitPump /\ [][NextPump]_vars

(***************************************************************************)
(* Claims about the calls of the controller (SpecPump).                    *)
(***************************************************************************)
\* a call of `op` has just returned or raised
Returned(op) == phase = "returned" /\ last.op = op

\* what happened to the i-th exchange of the last call
FateAt(i) == IF i <= Len(last.args.fates) THEN last.args.fates[i] ELSE OkFate

\* a timeout, or a line that is not text (decode gives None)
SoftFailure(i) == FateAt(i).kind \in {"timeout", "garbled"}

\* the first query of the last call got its answer: after soft failures
\* only, within the attempts of write_and_read_from_pump
FirstQueryAnswered ==
    \E i \in 1..MAX_REPEAT_WRITE_AND_READ :
        /\ FateAt(i).kind \in {"ok", "status"}
        /\ \A j \in 1..(i - 1) : SoftFailure(j)

HardwareErrorStatuses == ERROR_STATUSES_IDLE \cup ERROR_STATUSES_BUSY

\* a command that moves the plunger, sets the velocity or selects a valve
IsActuation(cmd) == Head(cmd) \in {"P", "D", "A", "V", "I", "O", "B", "E"}

\* C5: write_and_read_from_pump(packet, maxAttempts) makes transactions until
\* one yields a decodable response, which it returns; a timeout or a decode
\* failure leads to the next attempt and is never surfaced; never more than
\* maxAttempts transactions; when all attempts fail, ControllerRepeatedError
\* naming the pump after exactly maxAttempts transactions.
\* (Refuted: a truncated response raises IndexError out of the call.)
C5_RetryUntilDecodable ==
    Returned("write_and_read_from_pump") =>
        LET n == Len(last.cmds)
            max_repeat == last.args.max_repeat
        IN  /\ n <= max_repeat
            /\ last.exc \in {"none", "ControllerRepeatedError"}
            /\ last.exc = "none" =>
                  /\ n >= 1
                  /\ \A i \in 1..(n - 1) : FateAt(i).kind # "ok"
                  /\ last.ret.kind = "tuple"
                  /\ last.ret.status = DevStatus(last.dev0)
            /\ last.exc = "ControllerRepeatedError" =>
                  /\ n = max_repeat
                  /\ \A i \in 1..n : FateAt(i).kind # "ok"
                  /\ last.who = pumpObj.name

\* C6: hardware faults are never silently swallowed: when the response to any
\* command sent by an operation carries one of the 16 hardware-error status
\* codes, the operation fails (the claim: with PumpHWError) instead of
\* returning normally.
\* (Refuted: only is_idle looks at the status byte; the others return.)
C6_HardwareFaultSurfaces ==
    (/\ phase = "returned"
     /\ last.op \in {"is_idle", "set_top_velocity", "set_valve_position",
                     "pump", "deliver", "go_to_volume"}
     /\ \E i \in 1..Len(last.cmds) :
            FateAt(i).kind = "status" /\ FateAt(i).status \in HardwareErrorStatuses)
    => last.exc # "none"

\* the fault a hardware-error status stands for: its idle (lower case) code
C7_FaultCode(status) ==
    CASE status \in {"a", "A"} -> "a" [] status \in {"b", "B"} -> "b"
      [] status \in {"c", "C"} -> "c" [] status \in {"f", "F"} -> "f"
      [] status \in {"g", "G"} -> "g" [] status \in {"i", "I"} -> "i"
      [] status \in {"j", "J"} -> "j" [] status \in {"k", "K"} -> "k"

\* the status byte is_idle decoded in its last call: the one of its last
\* exchange
C7_Status ==
    LET n == Len(last.cmds)
    IN  IF FateAt(n).kind = "status" THEN FateAt(n).status ELSE DevStatus(last.dev0)

\* C7: is_idle issues the status-report command (again only after a timeout)
\* and maps the decoded status totally: idle error-free gives True, busy
\* error-free gives False, each of the 16 hardware-error codes raises
\* PumpHWError with the code of the fault and the name of the pump, any other
\* status raises ValueError.
C7_IsIdleMapping ==
    (Returned("is_idle") /\ FateAt(Len(last.cmds)).kind \in {"ok", "status"}) =>
        /\ \A i \in 1..Len(last.cmds) : last.cmds[i] = CMD_REPORT_STATUS
        /\ \A i \in 1..(Len(last.cmds) - 1) : SoftFailure(i)
        /\ C7_Status = STATUS_IDLE_ERROR_FREE => (last.exc = "none" /\ last.ret = TRUE)
        /\ C7_Status = STATUS_BUSY_ERROR_FREE => (last.exc = "none" /\ last.ret = FALSE)
        /\ C7_Status \in HardwareErrorStatuses =>
              /\ last.exc = "PumpHWError"
              /\ last.code = C7_FaultCode(C7_Status)
              /\ last.who = pumpObj.name
        /\ C7_Status \notin HardwareErrorStatuses
                              \cup {STATUS_IDLE_ERROR_FREE, STATUS_BUSY_ERROR_FREE} =>
              last.exc = "ValueError"

\* is_idle got status 'i' from an idle pump and raised PumpHWError with code 'i'
C7_Witness ==
    /\ Returned("is_idle")
    /\ last.args.fates = <<StatusFate("i")>>
    /\ last.cmds = <<CMD_REPORT_STATUS>>
    /\ last.exc = "PumpHWError"
    /\ last.code = "i"

\* C8: set_top_velocity with a velocity outside [1, 6000] (mode 0) or
\* [1, 48000] (mode 2), and set_valve_position with a position outside
\* {I, O, B, E, 1..6}, raise ValueError without any bus transaction.
\* (Refuted: both ask the device for its current value first.)
C8_ValidationBeforeIO ==
    /\ (Returned("set_top_velocity")
        /\ last.args.top_velocity \notin 1..MaxRange(pumpObj.micro_step_mode))
       => (last.exc = "ValueError" /\ last.cmds = <<>>)
    /\ (Returned("set_valve_position") /\ ~ValveKnown(last.args.valve_position))
       => (last.exc = "ValueError" /\ last.cmds = <<>>)

\* pump was called with a volume whose steps exceed the steps that remain,
\* and the pump reported its plunger position
C9_NotPumpable ==
    /\ Returned("pump")
    /\ FirstQueryAnswered
    /\ volume_to_step(pumpObj, last.args.volume_in_ml)
           > pumpObj.number_of_steps - last.dev0.pos

\* C9 as stated: pump(volume) returns False and no packet at all is written
\* when steps(volume) > number_of_steps - current plunger steps.
C9_NoPacketAtAll ==
    C9_NotPumpable => (last.exc = "none" /\ last.ret = FALSE /\ last.cmds = <<>>)

\* C9 as amended: pump(volume) returns False when steps(volume) >
\* number_of_steps - the plunger position the pump reports, and the only
\* packets written are the plunger-position queries that found this out.
C9_OnlyPositionQueries ==
    C9_NotPumpable =>
        /\ last.exc = "none"
        /\ last.ret = FALSE
        /\ last.cmds # <<>>
        /\ \A i \in 1..Len(last.cmds) : last.cmds[i] = CMD_REPORT_PLUNGER_POSITION
        /\ \A i \in 1..(Len(last.cmds) - 1) : SoftFailure(i)

\* pump of a millilitre more than the syringe holds returned False after one
\* position query
C9_Witness ==
    /\ C9_NotPumpable
    /\ last.args.volume_in_ml = SyringeVolume + VolDen
    /\ last.ret = FALSE
    /\ last.cmds = <<CMD_REPORT_PLUNGER_POSITION>>

\* deliver was called with a volume whose steps exceed the plunger position
\* the pump reported
C10_NotDeliverable ==
    /\ Returned("deliver")
    /\ FirstQueryAnswered
    /\ volume_to_step(pumpObj, last.args.volume_in_ml) > last.dev0.pos

\* go_to_volume was called with a volume outside [0, total_volume]
C10_NotValid ==
    /\ Returned("go_to_volume")
    /\ (last.args.volume_in_ml < 0 \/ last.args.volume_in_ml > pumpObj.total_volume)

\* C10: when their volume precondition fails, pump, deliver and go_to_volume
\* return False rather than raising and send no motion command (P, D, A), no
\* velocity-set command and no valve-select command.
C10_PreconditionFailureReturnsFalse ==
    (C9_NotPumpable \/ C10_NotDeliverable \/ C10_NotValid) =>
        /\ last.exc = "none"
        /\ last.ret = FALSE
        /\ \A i \in 1..Len(last.cmds) : ~IsActuation(last.cmds[i])

\* deliver of half a syringe from an empty syringe, valve and speed given,
\* returned False
C10_Witness ==
    /\ C10_NotDeliverable
    /\ last.dev0.pos = 0
    /\ last.args.style.valve # OptNone
    /\ last.args.style.speed # OptNone
    /\ last.ret = FALSE

\* C11: deliver with volume = 0 returns True without any bus transaction (no
\* query, no velocity set, no valve switch, no deliver command), whatever
\* to_valve and speed_out are.
\* (Refuted: is_volume_deliverable asks for the plunger position first.)
C11_DeliverZeroNoTransaction ==
    (Returned("deliver") /\ last.args.volume_in_ml = 0) =>
        (last.exc = "none" /\ last.ret = TRUE /\ last.cmds = <<>>)

(***************************************************************************)
(* Initialisation of the pump.                                             *)
(***************************************************************************)
\* C3000Controller.is_initialized
is_initialized(self, c) ==
    LET Answered(c1) ==
            IF Failed(c1) THEN c1
            ELSE IF ~IsNumeral(c1.ret.data) THEN Raise(c1, "ValueError")
            ELSE Return(c1, StrToInt(c1.ret.data) # 0)
    IN  Answered(write_and_read_from_pump(self, c,
                     forge_packet(self.address, DTCommand(CMD_REPORT_INTIALIZED, <<>>), TRUE),
                     MAX_REPEAT_WRITE_AND_READ))

\* a command written, then wait_until_idle if wait: returns None
CommandAndWait(self, c, dtcommand, wait) ==
    LET Written(c1) ==
            IF Failed(c1) THEN c1
            ELSE IF wait THEN wait_until_idle(self, c1)
            ELSE Return(c1, "None")
    IN  Written(write_and_read_from_pump(self, c, forge_packet(self.address, dtcommand, TRUE),
                    MAX_REPEAT_WRITE_AND_READ))

\* C3000Controller.initialize_valve_only (operand_string = '0,0')
initialize_valve_only(self, c, wait) ==
    CommandAndWait(self, c, DTCommand(CMD_INITIALIZE_VALVE_ONLY, <<"0", ",", "0">>), wait)

\* C3000Controller.initialize_no_valve (operand_value = None)
initialize_no_valve(self, c, wait) ==
    CommandAndWait(self, c,
        DTCommand(CMD_INITIALIZE_NO_VALVE,
                  IntToStr(IF self.total_volume < VolDen THEN 1 ELSE 0)),
        wait)

\* C3000Controller.set_microstep_mode
set_microstep_mode(self, c, micro_step_mode) ==
    CommandAndWait(self, c, DTCommand(CMD_MICROSTEPMODE, IntToStr(micro_step_mode)), FALSE)

\* C3000Controller.init_all_pump_parameters
init_all_pump_parameters(self, c, secure) ==
    LET VelocitySet(c3) == IF Failed(c3) THEN c3 ELSE wait_until_idle(self, c3)
        Waited(c2) ==
            IF Failed(c2) THEN c2
            ELSE VelocitySet(set_top_velocity(self, c2, self.default_top_velocity,
                                              MAX_REPEAT_OPERATION, secure))
        ModeSet(c1) == IF Failed(c1) THEN c1 ELSE Waited(wait_until_idle(self, c1))
    IN  ModeSet(set_microstep_mode(self, c, self.micro_step_mode))

\* The mutant of InitializeLoop: the first attempt is taken to have worked,
\* the pump is not asked.
InitializeLoopNoAsk(self, c, valve_position, max_repeat, secure, i) ==
    LET Homed(c3) == IF Failed(c3) THEN c3 ELSE Return(c3, TRUE)
        ValveSet(c2) == IF Failed(c2) THEN c2 ELSE Homed(initialize_no_valve(self, c2, TRUE))
        ValveHomed(c1) ==
            IF Failed(c1) THEN c1
            ELSE ValveSet(set_valve_position(self, c1, valve_position,
                                             MAX_REPEAT_OPERATION, secure))
    IN  IF i >= max_repeat THEN RaiseNamed(c, "ControllerRepeatedError", self.name)
        ELSE ValveHomed(initialize_valve_only(self, c, TRUE))

\* the loop of initialize from its iteration i on
RECURSIVE InitializeLoop(_, _, _, _, _, _)
InitializeLoop(self, c, valve_position, max_repeat, secure, i) ==
    LET Asked(c4) ==
            IF Failed(c4) THEN c4
            ELSE IF c4.ret THEN Return(c4, TRUE)
            ELSE InitializeLoop(self, c4, valve_position, max_repeat, secure, i + 1)
        Homed(c3) == IF Failed(c3) THEN c3 ELSE Asked(is_initialized(self, c3))
        ValveSet(c2) == IF Failed(c2) THEN c2 ELSE Homed(initialize_no_valve(self, c2, TRUE))
        ValveHomed(c1) ==
            IF Failed(c1) THEN c1
            ELSE ValveSet(set_valve_position(self, c1, valve_position,
                                             MAX_REPEAT_OPERATION, secure))
    IN  IF i >= max_repeat THEN RaiseNamed(c, "ControllerRepeatedError", self.name)
        ELSE ValveHomed(initialize_valve_only(self, c, TRUE))

\* C3000Controller.initialize
initialize(self, c, valve_position, max_repeat, secure) ==
    InitializeLoop(self, c,
                   IF valve_position = <<>> THEN self.initialize_valve_position
                   ELSE valve_position[1],
                   max_repeat, secure, 0)

\* The mutant of smart_initialize: the pump is initialised whatever it reports.
smart_initialize_Always(self, c, valve_position, secure) ==
    LET Initialized(c2) ==
            IF Failed(c2) THEN c2 ELSE init_all_pump_parameters(self, c2, secure)
        Asked(c1) ==
            IF Failed(c1) THEN c1
            ELSE Initialized(initialize(self, c1, valve_position, MAX_REPEAT_OPERATION, secure))
    IN  Asked(is_initialized(self, c))

\* C3000Controller.smart_initialize
smart_initialize(self, c, valve_position, secure) ==
    LET Initialized(c2) ==
            IF Failed(c2) THEN c2 ELSE init_all_pump_parameters(self, c2, secure)
        Asked(c1) ==
            IF Failed(c1) THEN c1
            ELSE IF ~c1.ret
                 THEN Initialized(initialize(self, c1, valve_position,
                                             MAX_REPEAT_OPERATION, secure))
            ELSE init_all_pump_parameters(self, c1, secure)
    IN  Asked(is_initialized(self, c))

\* initialisations in a row that a sticking plunger fails
MaxInitFails == 2
\* max_repeat values tried for initialize
MaxInitAttempts == 2
\* transactions into an initialisation at which a fault may happen
MaxInitFaultAt == 12

\* the faults of an initialisation: none, or one faulty exchange
InitScripts ==
    {<<>>} \cup {Rep(at - 1, OkFate) \o <<f>> :
                    at \in 1..MaxInitFaultAt, f \in {TimeoutFate, StatusFate("i")}}

InitValveArgs == {OptNone, Opt("O"), Opt("X")}

\* two calls of smart_initialize in a row by one caller, who notes how many
\* packets the first call wrote (the value returned)
smart_initialize_twice(self, c, valve_position, secure) ==
    LET Second(c2, first) == IF Failed(c2) THEN c2 ELSE Return(c2, first)
        First(c1) ==
            IF Failed(c1) THEN c1
            ELSE Second(smart_initialize(self, c1, valve_position, secure), Len(c1.sent))
    IN  First(smart_initialize(self, c, valve_position, secure))

\* a controller built for a pump that is just powered (not initialised, its
\* plunger may stick) or was left initialised
InitInit ==
    /\ lock = FALSE
    /\ tpc = [t \in Threads |-> "idle"]
    /\ waiting = <<>>
    /\ tops = [t \in Threads |-> <<>>]
    /\ tres = [t \in Threads |-> "none"]
    /\ ncalls = [t \in Threads |-> 0]
    /\ inBuf = <<>>
    /\ onWire = {}
    /\ qlock = <<>>
    /\ pumpObj \in {C3000Controller("water", "1", SyringeVolume, m, 6000) :
                       m \in {MICRO_STEP_MODE_0, MICRO_STEP_MODE_2}}
    /\ dev \in [pos : {0}, valve : {"i", "o"}, vel : {3000, 6000}, init : {FALSE},
                busy : {0}, fails : 0..MaxInitFails, stuck : {0}]
               \cup [pos : {0, pumpObj.number_of_steps}, valve : {"i", "o"},
                     vel : {6000}, init : {TRUE}, busy : {0}, fails : {0},
                     stuck : {0}]
    /\ phase = "ready"
    /\ last = <<>>

CallInitialize ==
    /\ phase = "ready"
    /\ \E valve_position \in InitValveArgs, max_repeat \in 0..MaxInitAttempts,
          secure \in BOOLEAN, fates \in InitScripts :
          Finish("initialize",
                 [valve_position |-> valve_position, max_repeat |-> max_repeat,
                  secure |-> secure, fates |-> fates],
                 initialize(pumpObj, NewContext(dev, fates), valve_position, max_repeat,
                            secure))

CallSmartInitialize ==
    /\ phase = "ready"
    /\ \E valve_position \in InitValveArgs, secure \in BOOLEAN, fates \in InitScripts :
          Finish("smart_initialize",
                 [valve_position |-> valve_position, secure |-> secure, fates |-> fates],
                 smart_initialize(pumpObj, NewContext(dev, fates), valve_position, secure))

CallSmartInitializeTwice ==
    /\ phase = "ready"
    /\ \E valve_position \in InitValveArgs, secure \in BOOLEAN, fates \in InitScripts :
          Finish("smart_initialize_twice",
                 [valve_position |-> valve_position, secure |-> secure, fates |-> fates],
                 smart_initialize_twice(pumpObj, NewContext(dev, fates), valve_position,
                                        secure))

NextInit ==
    \/ CallInitialize
    \/ CallSmartInitialize
    \/ CallSmartInitializeTwice
    \/ GoOn

SpecInit == InitInit /\ [][NextInit]_vars

(***************************************************************************)
(* Claims about the initialisation (SpecInit).                             *)
(***************************************************************************)
\* a command of the hardware initialize sequence: valve-only or no-valve init
IsInitCmd(cmd) == Head(cmd) \in {"w", "W"}

\* C12: smart_initialize runs the hardware initialize sequence only when the
\* pump reports not yet initialised; when it reports initialised no init
\* command is sent; so of two smart_initialize calls in a row on a pump that
\* stays initialised after the first, the second sends no init command (at
\* most one of the two runs the sequence).
C12_SmartInitializeIdempotent ==
    /\ Returned("smart_initialize") =>
          /\ (\E i \in 1..Len(last.cmds) : IsInitCmd(last.cmds[i])) => ~last.dev0.init
          /\ (~last.dev0.init /\ last.args.fates = <<>> /\ last.exc = "none") =>
                /\ \E i \in 1..Len(last.cmds) : Head(last.cmds[i]) = "w"
                /\ \E i \in 1..Len(last.cmds) : Head(last.cmds[i]) = "W"
    /\ (Returned("smart_initialize_twice") /\ last.exc = "none") =>
          /\ dev.init
          /\ \A i \in (last.ret + 1)..Len(last.cmds) : ~IsInitCmd(last.cmds[i])

\* two calls in a row on a pump just powered: the first initialised it, the
\* second wrote packets, none of them an init command
C12_Witness ==
    /\ Returned("smart_initialize_twice")
    /\ last.exc = "none"
    /\ ~last.dev0.init
    /\ \E i \in 1..last.ret : Head(last.cmds[i]) = "W"
    /\ last.ret < Len(last.cmds)

\* the steps of initialize among the packets written: valve-only init,
\* valve select, no-valve init, is_initialized query
C13_IsStep(cmd) ==
    \/ IsInitCmd(cmd)
    \/ Head(cmd) \in {"I", "O", "B", "E"}
    \/ cmd = CMD_REPORT_INTIALIZED

C13_Tag(cmd) ==
    IF cmd = CMD_REPORT_INTIALIZED THEN "asked"
    ELSE IF IsInitCmd(cmd) THEN Head(cmd) ELSE "valve"

C13_Steps ==
    LET steps == SelectSeq(last.cmds, C13_IsStep)
    IN  [i \in 1..Len(steps) |-> C13_Tag(steps[i])]

\* the valve position initialize aims at
C13_Target ==
    IF last.args.valve_position = <<>> THEN pumpObj.initialize_valve_position
    ELSE last.args.valve_position[1]

\* the steps of k attempts in a row: the valve is selected in the first one
\* if it is elsewhere
C13_Expected(k) ==
    LET first == IF Lower(C13_Target) # last.dev0.valve
                 THEN <<"w", "valve", "W", "asked">> ELSE <<"w", "W", "asked">>
        later == <<"w", "W", "asked">>
    IN  IF k = 0 THEN <<>>
        ELSE [i \in 1..(Len(first) + 3 * (k - 1)) |->
                 IF i <= Len(first) THEN first[i]
                 ELSE later[((i - Len(first) - 1) % 3) + 1]]

\* the attempts the pump needs before it reports initialised
C13_Needed == IF last.dev0.init THEN 1 ELSE last.dev0.fails + 1

\* C13: initialize(valvePosition, maxAttempts) makes attempts of the sequence
\* valve-only init, set valve to the target, no-valve init, in that order,
\* each followed by an is_initialized query; it returns True at the first
\* attempt after which the pump reports initialised, makes at most
\* maxAttempts attempts, and raises ControllerRepeatedError when all of them
\* leave the pump uninitialised.
C13_InitializeAttempts ==
    (Returned("initialize") /\ ValveKnown(C13_Target)) =>
        /\ last.exc = "none" => (last.ret = TRUE /\ dev.init)
        /\ last.args.fates = <<>> =>
              IF C13_Needed <= last.args.max_repeat
              THEN /\ last.exc = "none"
                   /\ C13_Steps = C13_Expected(C13_Needed)
              ELSE /\ last.exc = "ControllerRepeatedError"
                   /\ last.who = pumpObj.name
                   /\ C13_Steps = C13_Expected(last.args.max_repeat)

\* initialize with two attempts allowed on a pump that fails its first
\* initialisation returned True after the second attempt
C13_Witness ==
    /\ Returned("initialize")
    /\ last.args.fates = <<>>
    /\ last.args.max_repeat = 2
    /\ last.dev0.fails = 1
    /\ last.ret = TRUE
    /\ Len(SelectSeq(last.cmds, IsInitCmd)) = 4

\* initialize gave up on a pump that fails more initialisations than allowed
C13_WitnessExhausted ==
    /\ Returned("initialize")
    /\ last.args.fates = <<>>
    /\ last.args.max_repeat = 2
    /\ last.dev0.fails = 2
    /\ last.exc = "ControllerRepeatedError"

(***************************************************************************)
(* wait_until_idle poll by poll: `while self.is_busy(): time.sleep(...)`.  *)
(* `last` holds the call in progress: the polls made so far, each with     *)
(* what the line did (fate), the status byte the pump sent and the outcome *)
(* of is_busy.  The pump is in the middle of a move that ends within       *)
(* dev.busy more status queries.                                           *)
(***************************************************************************)
\* status queries a moving pump may still answer busy when the wait starts
MaxBusy == 3

\* what may happen to the exchange of one poll
PollFates ==
    {OkFate, TimeoutFate, TruncatedFate, StatusFate("i"), StatusFate("I"), StatusFate("z")}

\* the controllers and the pumps of the waits
WaitPumps ==
    {C3000Controller("water", "1", SyringeVolume, m, 6000) :
        m \in {MICRO_STEP_MODE_0, MICRO_STEP_MODE_2}}

WaitDevs(self) ==
    [pos : {0, self.number_of_steps}, valve : {"i", "o"},
     vel : {6000}, init : {TRUE}, busy : 0..MaxBusy, fails : {0}, stuck : {0}]

\* self.is_busy() for every controller, pump state and fate of the exchange
IsBusyOutcome ==
    [x \in {<<self, d, fate>> : self \in WaitPumps, d \in UNION {WaitDevs(q) : q \in WaitPumps},
                                fate \in PollFates} |->
        is_busy(x[1], NewContext(x[2], <<x[3]>>))]

InitWait ==
    /\ lock = FALSE
    /\ tpc = [t \in Threads |-> "idle"]
    /\ waiting = <<>>
    /\ tops = [t \in Threads |-> <<>>]
    /\ tres = [t \in Threads |-> "none"]
    /\ ncalls = [t \in Threads |-> 0]
    /\ inBuf = <<>>
    /\ onWire = {}
    /\ qlock = <<>>
    /\ pumpObj \in WaitPumps
    /\ dev \in WaitDevs(pumpObj)
    /\ phase = "ready"
    /\ last = <<>>

\* wait_until_idle is called
WaitStart ==
    /\ phase = "ready"
    /\ phase' = "polling"
    /\ last' = [op |-> "wait_until_idle", polls |-> <<>>, exc |-> "none", dev0 |-> dev]
    /\ UNCHANGED <<pumpObj, dev, busVars, qlock>>

\* the poll that ended in context c, on a pump that was in state d
PollRecord(d, fate, c) ==
    [fate |-> fate.kind,
     status |-> IF fate.kind = "status" THEN fate.status ELSE DevStatus(d),
     exc |-> c.exc,
     busy |-> IF Failed(c) THEN "None" ELSE c.ret,
     packets |-> Len(c.sent)]

\* one evaluation of the loop condition self.is_busy(): it raises, or it is
\* True and the thread sleeps and polls again, or it is False and the call
\* returns
WaitPoll ==
    /\ phase = "polling"
    /\ \E fate \in PollFates :
          LET Polled(c) ==
                  /\ dev' = c.dev
                  /\ last' = [last EXCEPT !.polls = Append(@, PollRecord(dev, fate, c)),
                                          !.exc = c.exc]
                  /\ phase' = IF Failed(c) THEN "returned"
                              ELSE IF c.ret THEN "polling" ELSE "returned"
          IN  Polled(IsBusyOutcome[<<pumpObj, dev, fate>>])
    /\ UNCHANGED <<pumpObj, busVars, qlock>>

NextWait ==
    \/ WaitStart
    \/ WaitPoll
    \/ GoOn

\* the polling thread is scheduled: a poll that can be made is made
SpecWait == InitWait /\ [][NextWait]_vars /\ WF_vars(WaitPoll)

\* the polls of the call in progress
C14_Polls == last.polls

\* a poll in which is_idle got an error-free status byte
C14_Reported(i, status) ==
    /\ C14_Polls[i].exc = "none"
    /\ C14_Polls[i].status = status

C14_Safety ==
    (phase \in {"polling", "returned"} /\ last.op = "wait_until_idle") =>
        LET n == Len(C14_Polls)
        IN  \* every poll but the last reported busy error-free
            /\ \A i \in 1..(n - 1) : C14_Reported(i, STATUS_BUSY_ERROR_FREE)
            \* it goes on polling exactly while the last poll reported busy
            /\ phase = "polling" => \A i \in 1..n : C14_Reported(i, STATUS_BUSY_ERROR_FREE)
            \* it returns only after a poll reported idle error-free
            /\ (phase = "returned" /\ last.exc = "none") =>
                  (n >= 1 /\ C14_Reported(n, STATUS_IDLE_ERROR_FREE))
            \* an error of the last poll is the error of the call
            /\ (phase = "returned" /\ last.exc # "none") =>
                  /\ n >= 1
                  /\ C14_Polls[n].exc = last.exc
                  /\ C14_Polls[n].status \in HardwareErrorStatuses =>
                        last.exc = "PumpHWError"
                  /\ (C14_Polls[n].fate = "status" /\ C14_Polls[n].status = "z") =>
                        last.exc = "ValueError"
            /\ phase = "returned" =>
                  (n >= 1 /\ ~C14_Reported(n, STATUS_BUSY_ERROR_FREE))

\* C14: wait_until_idle returns only after an is_idle poll reported idle
\* error-free; it keeps polling while the pump reports busy error-free; a
\* poll that raises ends the call with that error and no more polls; and a
\* call whose pump comes to report idle without an error returns.
C14_WaitUntilIdle ==
    /\ []C14_Safety
    /\ [][(phase = "returned" /\ last.op = "wait_until_idle") =>
              (last' = <<>> \/ UNCHANGED last)]_vars
    /\ (phase = "polling") ~> (phase = "returned")

\* the call polled a moving pump three times before it returned
C14_Witness ==
    /\ phase = "returned"
    /\ last.op = "wait_until_idle"
    /\ last.exc = "none"
    /\ Len(C14_Polls) = 3
    /\ C14_Polls[1].status = STATUS_BUSY_ERROR_FREE
    /\ C14_Polls[3].status = STATUS_IDLE_ERROR_FREE

(***************************************************************************)
(* Claims about set_top_velocity without verification (SpecPump).          *)
(***************************************************************************)
\* every transaction of the last call was answered at its first attempt
AllAnswered == \A i \in 1..Len(last.cmds) : FateAt(i).kind \in {"ok", "status"}

\* set_top_velocity(top_velocity, secure=False) with a velocity of the range
\* of the microstep mode, on a line that answers
C15_Unverified ==
    /\ Returned("set_top_velocity")
    /\ ~last.args.secure
    /\ last.args.top_velocity \in 1..MaxRange(pumpObj.micro_step_mode)
    /\ AllAnswered

C15_SetCommand == CMD_TOPVELOCITY \o IntToStr(last.args.top_velocity)

MaxStuck == 3

\* the attempts a caller allows set_valve_position
MaxValveAttempts == 3

InitValve ==
    /\ lock = FALSE
    /\ tpc = [t \in Threads |-> "idle"]
    /\ waiting = <<>>
    /\ tops = [t \in Threads |-> <<>>]
    /\ tres = [t \in Threads |-> "none"]
    /\ ncalls = [t \in Threads |-> 0]
    /\ inBuf = <<>>
    /\ onWire = {}
    /\ qlock = <<>>
    /\ pumpObj \in {C3000Controller("water", "1", SyringeVolume, m, 6000) :
                       m \in {MICRO_STEP_MODE_0, MICRO_STEP_MODE_2}}
    /\ dev \in [pos : {0}, valve : {"i", "o", "3"}, vel : {6000}, init : {TRUE},
                busy : {0}, fails : {0}, stuck : 0..MaxStuck]
    /\ phase = "ready"
    /\ last = <<>>

CallSetValvePositionRepeat ==
    /\ phase = "ready"
    /\ \E valve_position \in ValveArgs, max_repeat \in 0..MaxValveAttempts,
          secure \in BOOLEAN, fates \in Scripts :
          Finish("set_valve_position",
                 [valve_position |-> valve_position, max_repeat |-> max_repeat,
                  secure |-> secure, fates |-> fates],
                 set_valve_position(pumpObj, NewContext(dev, fates), valve_position,
                                    max_repeat, secure))

NextValve ==
    \/ CallSetValvePositionRepeat
    \/ GoOn

SpecValve == InitValve /\ [][NextValve]_vars

\* the valve position a pump in state d reports, as get_valve_position names it
ValveAt(d) ==
    CASE d.valve = "i" -> VALVE_INPUT [] d.valve = "o" -> VALVE_OUTPUT
      [] d.valve = "b" -> VALVE_BYPASS [] d.valve = "e" -> VALVE_EXTRA
      [] OTHER -> d.valve

\* the i-th packet of the last call repeats a packet that got no answer
IsRetransmission(i) == i > 1 /\ SoftFailure(i - 1)

\* the valve-select command for the position asked for
SelectCommand == PacketCmd(ValvePacket(pumpObj, last.args.valve_position))

\* the valve-select commands the last call issued
Selects ==
    {i \in 1..Len(last.cmds) : last.cmds[i] = SelectCommand /\ ~IsRetransmission(i)}

\* set_valve_position(valve_position, max_repeat, secure=True) for a position
\* the controller knows
C16_Secure ==
    /\ Returned("set_valve_position")
    /\ last.args.secure
    /\ ValveKnown(last.args.valve_position)

\* selects a pump with a sticking valve needs, and those the call may make
C16_Needed == IF ValveAt(last.dev0) = last.args.valve_position THEN 0
              ELSE last.dev0.stuck + 1

C16_Made == IF C16_Needed < last.args.max_repeat THEN C16_Needed
            ELSE last.args.max_repeat

\* one attempt on a line without faults: the live read, the select, the
\* status queries of the wait
C16_Attempt ==
    <<CMD_REPORT_VALVE_POSITION, SelectCommand>> \o Rep(BusyPolls + 1, CMD_REPORT_STATUS)

RECURSIVE C16_Attempts(_)
C16_Attempts(k) == IF k = 0 THEN <<>> ELSE C16_Attempt \o C16_Attempts(k - 1)

\* C16: set_valve_position with secure=true returns True only after a live
\* read of the valve position equals the target; it sends a valve-select
\* command only when the live read differs from the target, waits for idle
\* after each select, sends at most maxAttempts valve-select commands, and
\* raises ControllerRepeatedError when the position still differs after
\* maxAttempts attempts.
C16_SecureValve ==
    C16_Secure =>
        LET n == Len(last.cmds)
        IN  \* True only after a live read that equals the target
            /\ last.exc = "none" =>
                  /\ last.ret = TRUE
                  /\ n >= 1
                  /\ last.cmds[n] = CMD_REPORT_VALVE_POSITION
                  /\ ValveAt(dev) = last.args.valve_position
            \* a select follows a live read, and none a read of the target
            /\ \A i \in Selects : i > 1 /\ last.cmds[i - 1] = CMD_REPORT_VALVE_POSITION
            /\ (ValveAt(last.dev0) = last.args.valve_position /\ FateAt(1).kind = "ok") =>
                  Selects = {}
            \* the wait: status queries follow an answered select, and the
            \* pump is idle when the loop is left
            /\ \A i \in Selects :
                  (i < n /\ ~SoftFailure(i)) => last.cmds[i + 1] = CMD_REPORT_STATUS
            /\ (/\ Selects # {}
                /\ \/ last.exc = "none"
                   \/ last.exc = "ControllerRepeatedError" /\ AllAnswered) =>
                  dev.busy = 0
            \* at most max_repeat selects
            /\ Cardinality(Selects) <= last.args.max_repeat
            \* without faults: a select per attempt until the valve is in
            \* position, ControllerRepeatedError when the attempts run out
            /\ last.args.fates = <<>> =>
                  /\ Cardinality(Selects) = C16_Made
                  /\ (C16_Needed >= last.args.max_repeat) =>
                        /\ last.exc = "ControllerRepeatedError"
                        /\ last.who = pumpObj.name
                        /\ last.cmds = C16_Attempts(C16_Made)
                  /\ (C16_Needed < last.args.max_repeat) =>
                        /\ last.exc = "none"
                        /\ last.cmds = C16_Attempts(C16_Made) \o <<CMD_REPORT_VALVE_POSITION>>

\* three attempts allowed on a valve that ignores one select: two selects,
\* then the read that finds the valve in position
C16_Witness ==
    /\ C16_Secure
    /\ last.args.max_repeat = 3
    /\ last.args.fates = <<>>
    /\ last.dev0.stuck = 1
    /\ Cardinality(Selects) = 2
    /\ last.exc = "none"
    /\ last.ret = TRUE

\* two attempts on a valve that ignores three selects: ControllerRepeatedError
C16_WitnessExhausted ==
    /\ C16_Secure
    /\ last.args.max_repeat = 2
    /\ last.dev0.stuck = 3
    /\ Cardinality(Selects) = 2
    /\ ValveAt(dev) # last.args.valve_position
    /\ last.exc = "ControllerRepeatedError"

\* set_valve_position(valve_position, max_repeat >= 1, secure=False) for a
\* position the controller knows, on a line that answers
C17_Unverified ==
    /\ Returned("set_valve_position")
    /\ ~last.args.secure
    /\ last.args.max_repeat >= 1
    /\ ValveKnown(last.args.valve_position)
    /\ AllAnswered

\* C17 as stated: set_valve_position with secure=false performs no live read
\* of the valve position and no wait_until_idle poll, sends the valve-select
\* command for the requested position once, and returns True.
\* (Refuted: the valve is read first, and not selected when in position.)
C17_SelectOnceNoRead ==
    C17_Unverified =>
        (last.exc = "none" /\ last.ret = TRUE /\ last.cmds = <<SelectCommand>>)

\* C17 amended: set_valve_position with secure=false reads the valve position
\* once; when the valve is in position it returns True without a select,
\* otherwise it sends the valve-select command once and returns True, with
\* no read after the select and no wait_until_idle poll.
C17_ReadThenSelectOnce ==
    C17_Unverified =>
        /\ last.exc = "none"
        /\ last.ret = TRUE
        /\ last.cmds = IF ValveAt(last.dev0) = last.args.valve_position
                       THEN <<CMD_REPORT_VALVE_POSITION>>
                       ELSE <<CMD_REPORT_VALVE_POSITION, SelectCommand>>

\* an unverified select on a sticking valve: True, the valve elsewhere
C17_Witness ==
    /\ C17_Unverified
    /\ last.dev0.stuck = 1
    /\ last.cmds = <<CMD_REPORT_VALVE_POSITION, SelectCommand>>
    /\ ValveAt(dev) # last.args.valve_position
    /\ last.ret = TRUE

(***************************************************************************)
(* C3000Controller.transfer (SpecTransfer).  The method calls itself for   *)
(* what remains to be transferred; the interpreter raises RecursionError   *)
(* when the calls nest deeper than its recursion limit (1000 frames by     *)
(* default), which the model scales down to MaxRecursion.                  *)
(***************************************************************************)
\* nested calls of transfer the interpreter allows
MaxRecursion == 6

\* C3000Controller.get_volume (in ticks)
get_volume(self, c) ==
    LET Read(c1) == IF Failed(c1) THEN c1 ELSE Return(c1, step_to_volume(self, c1.ret))
    IN  Read(get_plunger_position(self, c))

\* C3000Controller.remaining_volume (in ticks)
remaining_volume(self, c) ==
    LET Read(c1) == IF Failed(c1) THEN c1 ELSE Return(c1, self.total_volume - c1.ret)
    IN  Read(get_volume(self, c))

Min(a, b) == IF a <= b THEN a ELSE b

\* The mutant of TransferFrom: the chunk is the whole volume asked for.
TransferFromUnsplit(self, c, volume_in_ml, from_valve, to_valve, speed_in, speed_out, depth) ==
    LET Delivered(c3) == IF Failed(c3) THEN c3 ELSE Return(c3, "None")
        Pumped(c2) ==
            IF Failed(c2) THEN c2
            ELSE Delivered(deliver(self, c2, volume_in_ml, Opt(to_valve), speed_out,
                                   TRUE, TRUE))
        Remaining(c1) ==
            IF Failed(c1) THEN c1
            ELSE Pumped(pump(self, c1, volume_in_ml, Opt(from_valve), speed_in, TRUE, TRUE))
    IN  IF depth >= MaxRecursion THEN Raise(c, "RecursionError")
        ELSE Remaining(remaining_volume(self, c))

\* transfer called at nesting depth `depth`
RECURSIVE TransferFrom(_, _, _, _, _, _, _, _)
TransferFrom(self, c, volume_in_ml, from_valve, to_valve, speed_in, speed_out, depth) ==
    LET Delivered(c3, volume_transferred) ==
            IF Failed(c3) THEN c3
            ELSE IF volume_in_ml - volume_transferred > 0
                 THEN TransferFrom(self, c3, volume_in_ml - volume_transferred,
                                   from_valve, to_valve, speed_in, speed_out, depth + 1)
            ELSE Return(c3, "None")
        Pumped(c2, volume_transferred) ==
            IF Failed(c2) THEN c2
            ELSE Delivered(deliver(self, c2, volume_transferred, Opt(to_valve), speed_out,
                                   TRUE, TRUE),
                           volume_transferred)
        Chunk(c1, volume_transferred) ==
            Pumped(pump(self, c1, volume_transferred, Opt(from_valve), speed_in, TRUE, TRUE),
                   volume_transferred)
        Remaining(c1) ==
            IF Failed(c1) THEN c1 ELSE Chunk(c1, Min(volume_in_ml, c1.ret))
    IN  IF depth >= MaxRecursion THEN Raise(c, "RecursionError")
        ELSE Remaining(remaining_volume(self, c))

\* C3000Controller.transfer
transfer(self, c, volume_in_ml, from_valve, to_valve, speed_in, speed_out) ==
    TransferFrom(self, c, volume_in_ml, from_valve, to_valve, speed_in, speed_out, 0)

\* volumes to transfer: half a syringe, a syringe, a tick more, two
\* syringes, two and a half
TransferVolumes ==
    {SyringeVolume \div 2, SyringeVolume, SyringeVolume + 1, 2 * SyringeVolume,
     (5 * SyringeVolume) \div 2}

\* the faults of a transfer: none, or one faulty exchange
TransferScripts ==
    {<<>>} \cup {Rep(at - 1, OkFate) \o <<f>> : at \in 1..MaxFaultAt, f \in FaultFates}

\* a pump with an empty, a half full or a full syringe, at rest or moving
InitTransfer ==
    /\ lock = FALSE
    /\ tpc = [t \in Threads |-> "idle"]
    /\ waiting = <<>>
    /\ tops = [t \in Threads |-> <<>>]
    /\ tres = [t \in Threads |-> "none"]
    /\ ncalls = [t \in Threads |-> 0]
    /\ inBuf = <<>>
    /\ onWire = {}
    /\ qlock = <<>>
    /\ pumpObj \in {C3000Controller("water", "1", SyringeVolume, m, 6000) :
                       m \in {MICRO_STEP_MODE_0, MICRO_STEP_MODE_2}}
    /\ dev \in [pos : {0, pumpObj.number_of_steps \div 2, pumpObj.number_of_steps},
                valve : {"i", "o"}, vel : {6000}, init : {TRUE},
                busy : {0, BusyPolls}, fails : {0}, stuck : {0}]
    /\ phase = "ready"
    /\ last = <<>>

CallTransfer ==
    /\ phase = "ready"
    /\ \E volume_in_ml \in TransferVolumes, valves \in {<<"I", "O">>, <<"O", "I">>},
          speed \in {OptNone, Opt(3000)}, fates \in TransferScripts :
          Finish("transfer",
                 [volume_in_ml |-> volume_in_ml, from_valve |-> valves[1],
                  to_valve |-> valves[2], speed |-> speed, fates |-> fates],
                 transfer(pumpObj, NewContext(dev, fates), volume_in_ml, valves[1],
                          valves[2], speed, speed))

NextTransfer ==
    \/ CallTransfer
    \/ GoOn

SpecTransfer == InitTransfer /\ [][NextTransfer]_vars

(***************************************************************************)
(* Claims about transfer (SpecTransfer).                                   *)
(***************************************************************************)
IsMove(cmd) == Head(cmd) \in {"P", "D"}

\* the pump and deliver commands of the last call, in the order written
Moves == SelectSeq(last.cmds, IsMove)

\* the pump and deliver commands of a transfer of v ticks in chunks of at
\* most the capacity: full chunks, then the remainder
RECURSIVE ChunkedMoves(_)
ChunkedMoves(v) ==
    IF v <= 0 THEN <<>>
    ELSE <<CMD_PUMP \o IntToStr(volume_to_step(pumpObj, Min(v, pumpObj.total_volume))),
           CMD_DELIVER \o IntToStr(volume_to_step(pumpObj, Min(v, pumpObj.total_volume)))>>
         \o ChunkedMoves(v - Min(v, pumpObj.total_volume))

\* the packets that start a round: the plunger query of remaining_volume,
\* which the plunger query of is_volume_pumpable follows
RoundStarts ==
    {j \in 1..(Len(last.cmds) - 1) :
        /\ last.cmds[j] = CMD_REPORT_PLUNGER_POSITION
        /\ last.cmds[j + 1] = CMD_REPORT_PLUNGER_POSITION}

\* ceil(a / b) for b > 0
CeilDiv(a, b) == (a + b - 1) \div b

\* transfer on a pump whose plunger is at 0, on a line without faults
C18_FromEmpty ==
    /\ Returned("transfer")
    /\ last.args.fates = <<>>
    /\ last.dev0.pos = 0

\* the rounds and their chunks (common to the claim and its amendment)
C18_Rounds ==
    /\ last.exc = "none"
    /\ Len(Moves) = 2 * CeilDiv(last.args.volume_in_ml, pumpObj.total_volume)
    /\ Moves = ChunkedMoves(last.args.volume_in_ml)
    /\ Cardinality(RoundStarts) = CeilDiv(last.args.volume_in_ml, pumpObj.total_volume)

\* C18 as stated: on a pump of capacity C whose plunger is at 0,
\* transfer(V, from, to) performs exactly ceil(V/C) pump-then-deliver round
\* trips with chunks C for every round but the last and the remainder for
\* the last, each round delivers the chunk it pumped, and each round is
\* preceded by a wait-until-idle: a status query comes before the pump
\* command of every round, after the round before.
\* (Refuted: nothing waits before the first round.)
C18_EachRoundPrecededByWait ==
    C18_FromEmpty =>
        /\ C18_Rounds
        /\ \A i \in 1..Len(last.cmds) :
              Head(last.cmds[i]) = "P" =>
                  \E j \in 1..(i - 1) :
                      /\ last.cmds[j] = CMD_REPORT_STATUS
                      /\ \A k \in (j + 1)..(i - 1) : ~IsMove(last.cmds[k])

\* C18 amended: the same rounds and chunks; the pump and the deliver of each
\* round are each followed by a wait-until-idle, so that every round but
\* the first is preceded by one; the first round starts with the first
\* packet of the call, no wait before it.
C18_ChunkedRounds ==
    C18_FromEmpty =>
        /\ C18_Rounds
        /\ \A i \in 1..Len(last.cmds) :
              IsMove(last.cmds[i]) =>
                  (i < Len(last.cmds) /\ last.cmds[i + 1] = CMD_REPORT_STATUS)
        /\ 1 \in RoundStarts
        /\ \A j \in RoundStarts \ {1} : last.cmds[j - 1] = CMD_REPORT_STATUS
        /\ dev.busy = 0
        /\ dev.pos = 0

\* two and a half syringes from an empty syringe of 3000 steps: chunks of
\* 3000, 3000 and 1500 steps
C18_Witness ==
    /\ C18_FromEmpty
    /\ last.args.volume_in_ml = (5 * pumpObj.total_volume) \div 2
    /\ pumpObj.number_of_steps = 3000
    /\ Moves = <<CMD_PUMP \o IntToStr(3000), CMD_DELIVER \o IntToStr(3000),
                 CMD_PUMP \o IntToStr(3000), CMD_DELIVER \o IntToStr(3000),
                 CMD_PUMP \o IntToStr(1500), CMD_DELIVER \o IntToStr(1500)>>
    /\ Cardinality(RoundStarts) = 3

\* the steps the deliver commands of the last call add up to
RECURSIVE StepsOf(_, _)
StepsOf(cmds, opcode) ==
    IF cmds = <<>> THEN 0
    ELSE (IF Head(Head(cmds)) = opcode THEN StrToInt(Tail(Head(cmds))) ELSE 0)
         + StepsOf(Tail(cmds), opcode)

\* C19: transfer terminates: for every requested volume and every initial
\* plunger position in [0, number_of_steps], a completely full syringe
\* included, on a pump that executes each command and becomes idle, the
\* recursion of transfer ends with the whole requested volume transferred.
\* (Refuted: on a full syringe every chunk is 0 and the recursion goes on
\* until the interpreter raises RecursionError.)
C19_TransferTerminates ==
    (Returned("transfer") /\ last.args.fates = <<>>) =>
        /\ last.exc = "none"
        /\ StepsOf(last.cmds, "D") = volume_to_step(pumpObj, last.args.volume_in_ml)

(***************************************************************************)
(* MultiPumpController.apply_command_to_pumps (SpecMulti).  In this part   *)
(* pumpObj is the dict self.pumps (name to controller) and dev maps each   *)
(* name to the pump the controller drives; the pumps share one line, so    *)
(* the fates of the exchanges run through the calls on all of them.        *)
(***************************************************************************)
\* names a caller lists at most
MaxNames == 3

PumpNames == {"water", "acetone", "ethanol"}

\* MultiPumpController.__init__: self.pumps
MultiPumpController ==
    [name \in PumpNames |->
        C3000Controller(name,
                        CASE name = "water" -> "1" [] name = "acetone" -> "2"
                          [] name = "ethanol" -> "3",
                        SyringeVolume, MICRO_STEP_MODE_2, 6000)]

\* the methods of C3000Controller that callers name
KnownMethods ==
    {"is_idle", "get_valve_position", "set_valve_position", "wait_until_idle",
     "set_top_velocity", "ensure_default_top_velocity", "pump", "deliver",
     "is_initialized", "initialize_valve_only", "initialize_no_valve",
     "init_all_pump_parameters"}

\* func = getattr(pump, command); func(*args, **kwargs): args holds the
\* arguments in the order of the signature, an argument the caller leaves
\* out of pump or deliver standing with its default
CallByName(self, c, command, args) ==
    CASE command = "is_idle" /\ args = <<>> -> is_idle(self, c)
      [] command = "get_valve_position" /\ args = <<>> ->
             get_valve_position(self, c, MAX_REPEAT_OPERATION)
      \* set_valve_position(valve_position) or (valve_position, secure=...)
      [] command = "set_valve_position" /\ Len(args) \in {1, 2} ->
             set_valve_position(self, c, args[1], MAX_REPEAT_OPERATION,
                                IF Len(args) = 2 THEN args[2] ELSE TRUE)
      [] command = "wait_until_idle" /\ args = <<>> -> wait_until_idle(self, c)
      \* set_top_velocity(top_velocity, secure=...)
      [] command = "set_top_velocity" /\ Len(args) = 2 ->
             set_top_velocity(self, c, args[1], MAX_REPEAT_OPERATION, args[2])
      \* ensure_default_top_velocity(secure=...)
      [] command = "ensure_default_top_velocity" /\ Len(args) = 1 ->
             ensure_default_top_velocity(self, c, args[1])
      \* pump(volume_in_ml, from_valve, speed_in, wait, secure)
      [] command = "pump" /\ Len(args) = 5 ->
             pump(self, c, args[1], args[2], args[3], args[4], args[5])
      \* deliver(volume_in_ml, to_valve, speed_out, wait, secure)
      [] command = "deliver" /\ Len(args) = 5 ->
             deliver(self, c, args[1], args[2], args[3], args[4], args[5])
      [] command = "is_initialized" /\ args = <<>> -> is_initialized(self, c)
      \* initialize_valve_only(wait=...), initialize_no_valve(wait=...)
      [] command = "initialize_valve_only" /\ Len(args) = 1 ->
             initialize_valve_only(self, c, args[1])
      [] command = "initialize_no_valve" /\ Len(args) = 1 ->
             initialize_no_valve(self, c, args[1])
      \* init_all_pump_parameters(secure=...)
      [] command = "init_all_pump_parameters" /\ Len(args) = 1 ->
             init_all_pump_parameters(self, c, args[1])
      [] OTHER -> IF command \in KnownMethods THEN Raise(c, "TypeError")
                  ELSE Raise(c, "AttributeError")

\* a call made by the loop: on which pump, and how it ended
Invocation(pump_name, c) ==
    [name |-> pump_name, exc |-> c.exc, ret |-> IF Failed(c) THEN "None" ELSE c.ret]

\* The mutant of ApplyLoop: a call that raises is skipped, the loop goes on.
RECURSIVE ApplyLoopCatching(_, _, _, _, _, _, _, _)
ApplyLoopCatching(pumps, devs, c, pump_names, command, args, i, out) ==
    LET Called(pump_name, c1) ==
            ApplyLoopCatching(pumps, [devs EXCEPT ![pump_name] = c1.dev],
                [c1 EXCEPT !.exc = "none"], pump_names, command, args, i + 1,
                [returns |-> IF Failed(c1) THEN out.returns
                             ELSE (pump_name :> c1.ret) @@ out.returns,
                 invoked |-> Append(out.invoked, Invocation(pump_name, c1))])
        Looked(pump_name) ==
            IF pump_name \notin DOMAIN pumps
            THEN [devs |-> devs, c |-> Raise(c, "KeyError"), invoked |-> out.invoked]
            ELSE Called(pump_name,
                        CallByName(pumps[pump_name], [c EXCEPT !.dev = devs[pump_name]],
                                   command, args))
    IN  IF i > Len(pump_names)
        THEN [devs |-> devs, c |-> Return(c, out.returns), invoked |-> out.invoked]
        ELSE Looked(pump_names[i])

\* the loop of apply_command_to_pumps from the i-th name on; s holds the
\* pumps, the call context, the dict `returns` and the calls made so far
\* (a value bound by `\in {e}` is evaluated once)
RECURSIVE ApplyFrom(_, _, _, _, _, _)
ApplyFrom(pumps, s, pump_names, command, args, i) ==
    CHOOSE after \in
        {IF i > Len(pump_names)
         THEN [devs |-> s0.devs, c |-> Return(s0.c, s0.returns), invoked |-> s0.invoked]
         ELSE IF pump_names[i] \notin DOMAIN pumps
         THEN [devs |-> s0.devs, c |-> Raise(s0.c, "KeyError"), invoked |-> s0.invoked]
         ELSE CHOOSE called \in
                  {IF Failed(c1)
                   THEN [devs |-> [s0.devs EXCEPT ![pump_names[i]] = c1.dev], c |-> c1,
                         invoked |-> Append(s0.invoked, Invocation(pump_names[i], c1))]
                   ELSE ApplyFrom(pumps,
                            [devs |-> [s0.devs EXCEPT ![pump_names[i]] = c1.dev],
                             c |-> c1,
                             returns |-> (pump_names[i] :> c1.ret) @@ s0.returns,
                             invoked |-> Append(s0.invoked,
                                                Invocation(pump_names[i], c1))],
                            pump_names, command, args, i + 1) :
                   c1 \in {CallByName(pumps[pump_names[i]],
                                      [s0.c EXCEPT !.dev = s0.devs[pump_names[i]]],
                                      command, args)}} : TRUE :
         s0 \in {s}} : TRUE

ApplyLoop(pumps, devs, c, pump_names, command, args, i, out) ==
    ApplyFrom(pumps, [devs |-> devs, c |-> c, returns |-> out.returns,
                      invoked |-> out.invoked], pump_names, command, args, i)

\* MultiPumpController.apply_command_to_pumps
apply_command_to_pumps(pumps, devs, c, pump_names, command, args) ==
    ApplyLoop(pumps, devs, c, pump_names, command, args, 1,
              [returns |-> <<>>, invoked |-> <<>>])

\* the commands callers fan out, with their arguments
FanOuts ==
    {[command |-> "is_idle", args |-> <<>>],
     [command |-> "get_valve_position", args |-> <<>>],
     [command |-> "set_valve_position", args |-> <<VALVE_OUTPUT>>]}

\* the faults of a fan-out: none, or one faulty exchange
MultiScripts ==
    {<<>>} \cup {Rep(at - 1, OkFate) \o <<f>> :
                    at \in 1..MaxNames, f \in {TruncatedFate, StatusFate("i")}}

\* the address each packet of a fan-out was written to
Addresses(sent) == [i \in 1..Len(sent) |-> sent[i].address]

InitMulti ==
    /\ lock = FALSE
    /\ tpc = [t \in Threads |-> "idle"]
    /\ waiting = <<>>
    /\ tops = [t \in Threads |-> <<>>]
    /\ tres = [t \in Threads |-> "none"]
    /\ ncalls = [t \in Threads |-> 0]
    /\ inBuf = <<>>
    /\ onWire = {}
    /\ qlock = <<>>
    /\ pumpObj = MultiPumpController
    /\ dev \in [PumpNames -> [pos : {0}, valve : {"i", "o"}, vel : {6000}, init : {TRUE},
                               busy : {0, BusyPolls}, fails : {0}, stuck : {0}]]
    /\ phase = "ready"
    /\ last = <<>>

CallApplyCommandToPumps ==
    /\ phase = "ready"
    /\ \E pump_names \in SeqsUpTo(PumpNames, MaxNames), fanout \in FanOuts,
          fates \in MultiScripts :
          LET Applied(r) ==
                  /\ dev' = r.devs
                  /\ last' = [op |-> "apply_command_to_pumps",
                              args |-> [pump_names |-> pump_names,
                                        command |-> fanout.command,
                                        args |-> fanout.args, fates |-> fates],
                              exc |-> r.c.exc,
                              ret |-> IF Failed(r.c) THEN "None" ELSE r.c.ret,
                              invoked |-> r.invoked,
                              to |-> Addresses(r.c.sent),
                              cmds |-> Cmds(r.c.sent), dev0 |-> dev]
          IN  Applied(apply_command_to_pumps(pumpObj, dev,
                          NewContext(dev[CHOOSE n \in PumpNames : TRUE], fates),
                          pump_names, fanout.command, fanout.args))
    /\ phase' = "returned"
    /\ UNCHANGED <<pumpObj, busVars, qlock>>

NextMulti ==
    \/ CallApplyCommandToPumps
    \/ GoOn

SpecMulti == InitMulti /\ [][NextMulti]_vars

(***************************************************************************)
(* Claims about apply_command_to_pumps (SpecMulti).                        *)
(***************************************************************************)
\* a sequence without the repetitions of an element next to itself
RECURSIVE Collapse(_)
Collapse(q) ==
    IF Len(q) <= 1 THEN q
    ELSE IF q[1] = q[2] THEN Collapse(Tail(q))
    ELSE <<q[1]>> \o Collapse(Tail(q))

C20_Applied == Returned("apply_command_to_pumps")

\* the addresses of the pumps the loop called, in the order of the calls
C20_Called == [i \in 1..Len(last.invoked) |-> pumpObj[last.invoked[i].name].address]

\* the last place of a name in the list
C20_LastOf(name) ==
    CHOOSE i \in 1..Len(last.args.pump_names) :
        /\ last.args.pump_names[i] = name
        /\ \A j \in (i + 1)..Len(last.args.pump_names) : last.args.pump_names[j] # name

\* C20: apply_command_to_pumps(names, operation, args) invokes the operation
\* once per listed name, synchronously and in list order, and returns a map
\* from each name to that pump's result; when the call on one pump raises,
\* the exception propagates to the caller and the operation is not invoked on
\* any name later in the list.
C20_FanOut ==
    C20_Applied =>
        LET pump_names == last.args.pump_names
            n == Len(last.invoked)
        IN  \* the calls follow the list, and only the last may have raised
            /\ n <= Len(pump_names)
            /\ \A i \in 1..n : last.invoked[i].name = pump_names[i]
            /\ \A i \in 1..(n - 1) : last.invoked[i].exc = "none"
            \* one call after the other on the line, none on a pump not called
            /\ Collapse(last.to) = Collapse(C20_Called)
            \* all went well: a call per name, the map of their results
            /\ last.exc = "none" =>
                  /\ n = Len(pump_names)
                  /\ \A i \in 1..n : last.invoked[i].exc = "none"
                  /\ DOMAIN last.ret = {pump_names[i] : i \in 1..n}
                  /\ \A name \in DOMAIN last.ret :
                        last.ret[name] = last.invoked[C20_LastOf(name)].ret
                  /\ (last.args.fates = <<>> /\ last.args.command = "get_valve_position") =>
                        \A name \in DOMAIN last.ret : last.ret[name] = ValveAt(last.dev0[name])
                  /\ (/\ last.args.fates = <<>>
                      /\ last.args.command = "is_idle"
                      /\ Cardinality(DOMAIN last.ret) = n) =>
                        \A name \in DOMAIN last.ret :
                            last.ret[name] = (last.dev0[name].busy = 0)
            \* a call raised: its exception is the caller's, the rest is not called
            /\ last.exc # "none" =>
                  /\ n >= 1
                  /\ last.invoked[n].exc = last.exc
                  /\ \A i \in (n + 1)..Len(pump_names) :
                        pump_names[i] \notin {pump_names[j] : j \in 1..n} =>
                            /\ dev[pump_names[i]] = last.dev0[pump_names[i]]
                            /\ \A k \in 1..Len(last.to) :
                                  last.to[k] # pumpObj[pump_names[i]].address

\* is_idle on three pumps, the second answers with a hardware error status:
\* PumpHWError, the third pump is not asked
C20_Witness ==
    /\ C20_Applied
    /\ last.args.pump_names = <<"water", "acetone", "ethanol">>
    /\ last.args.command = "is_idle"
    /\ last.args.fates = <<OkFate, StatusFate("i")>>
    /\ last.exc = "PumpHWError"
    /\ Len(last.invoked) = 2
    /\ last.to = <<"1", "2">>

\* set_valve_position on three pumps went well: a result per name
C20_WitnessAll ==
    /\ C20_Applied
    /\ last.args.pump_names = <<"ethanol", "water", "acetone">>
    /\ last.args.command = "set_valve_position"
    /\ last.exc = "none"
    /\ DOMAIN last.ret = PumpNames
    /\ \A name \in PumpNames : last.ret[name] = TRUE /\ dev[name].valve = "o"

(***************************************************************************)
(* MultiPumpController.pump, deliver, transfer and parallel_transfer       *)
(* (SpecFleet).  A run r of the controller holds the pumps (devs) and the  *)
(* call context (c) that goes through the calls on all of them.            *)
(***************************************************************************)
\* self.apply_command_to_pumps(...) as a statement of a method: skipped once
\* an exception is in flight
Apply(pumps, r, pump_names, command, args) ==
    CHOOSE after \in
        {IF Failed(r0.c) THEN r0
         ELSE CHOOSE applied \in
                  {[devs |-> a.devs, c |-> a.c] :
                   a \in {apply_command_to_pumps(pumps, r0.devs, r0.c, pump_names,
                                                 command, args)}} : TRUE :
         r0 \in {r}} : TRUE

\* a method of one pump called by a method of the controller
CallOn(pumps, r, pump_name, command, args) ==
    CHOOSE after \in
        {IF Failed(r0.c) THEN r0
         ELSE CHOOSE called \in
                  {[devs |-> [r0.devs EXCEPT ![pump_name] = c1.dev], c |-> c1] :
                   c1 \in {CallByName(pumps[pump_name],
                                      [r0.c EXCEPT !.dev = r0.devs[pump_name]],
                                      command, args)}} : TRUE :
         r0 \in {r}} : TRUE

\* a method without return statement returns None
ReturnNone(r) ==
    CHOOSE after \in
        {IF Failed(r0.c) THEN r0 ELSE [r0 EXCEPT !.c = Return(@, "None")] :
         r0 \in {r}} : TRUE

\* one statement self.apply_command_to_pumps(names, command, ...)
Statement(pump_names, command, args) ==
    [names |-> pump_names, command |-> command, args |-> args]

\* the statements of a method, run one after the other from the i-th on
RECURSIVE RunStatements(_, _, _, _)
RunStatements(pumps, r, statements, i) ==
    IF i > Len(statements) THEN r
    ELSE RunStatements(pumps,
             Apply(pumps, r, statements[i].names, statements[i].command,
                   statements[i].args),
             statements, i + 1)

\* The mutant of PumpStatements: velocity, valve and motion in one fan-out,
\* each pump set up and moved in turn.
PumpStatementsOneByOne(pump_names, volume_in_ml, from_valve, speed_in, wait, secure) ==
    <<Statement(pump_names, "pump", <<volume_in_ml, from_valve, speed_in, FALSE, secure>>)>>
    \o (IF wait THEN <<Statement(pump_names, "wait_until_idle", <<>>)>> ELSE <<>>)

\* the body of MultiPumpController.pump
PumpStatements(pump_names, volume_in_ml, from_valve, speed_in, wait, secure) ==
    (IF speed_in # <<>>
     THEN <<Statement(pump_names, "set_top_velocity", <<speed_in[1], secure>>)>>
     ELSE <<Statement(pump_names, "ensure_default_top_velocity", <<secure>>)>>)
    \o (IF from_valve # <<>>
        THEN <<Statement(pump_names, "set_valve_position", <<from_valve[1], secure>>)>>
        ELSE <<>>)
    \* pump(volume_in_ml, speed_in=speed_in, wait=False): no valve, secure=True
    \o <<Statement(pump_names, "pump", <<volume_in_ml, OptNone, speed_in, FALSE, TRUE>>)>>
    \o (IF wait THEN <<Statement(pump_names, "wait_until_idle", <<>>)>> ELSE <<>>)

\* the body of MultiPumpController.deliver
DeliverStatements(pump_names, volume_in_ml, to_valve, speed_out, wait, secure) ==
    (IF speed_out # <<>>
     THEN <<Statement(pump_names, "set_top_velocity", <<speed_out[1], secure>>)>>
     ELSE <<Statement(pump_names, "ensure_default_top_velocity", <<secure>>)>>)
    \o (IF to_valve # <<>>
        THEN <<Statement(pump_names, "set_valve_position", <<to_valve[1], secure>>)>>
        ELSE <<>>)
    \o <<Statement(pump_names, "deliver", <<volume_in_ml, OptNone, speed_out, FALSE, TRUE>>)>>
    \o (IF wait THEN <<Statement(pump_names, "wait_until_idle", <<>>)>> ELSE <<>>)

\* MultiPumpController.pump
Multi_pump(pumps, r, pump_names, volume_in_ml, from_valve, speed_in, wait, secure) ==
    ReturnNone(RunStatements(pumps, r,
        PumpStatements(pump_names, volume_in_ml, from_valve, speed_in, wait, secure), 1))

\* MultiPumpController.deliver
Multi_deliver(pumps, r, pump_names, volume_in_ml, to_valve, speed_out, wait, secure) ==
    ReturnNone(RunStatements(pumps, r,
        DeliverStatements(pump_names, volume_in_ml, to_valve, speed_out, wait, secure), 1))

\* the status byte of a line read back ("" when there is none)
StatusOfLine(line) == IF Len(line) >= 3 THEN line[3] ELSE ""

\* the data of a line read back: what lies between the status byte and
\* the end of the frame
DataOfLine(line) == IF Len(line) >= 6 THEN SubSeq(line, 4, Len(line) - 3) ELSE <<>>

\* the record of a call of the controller that ended in run r
FleetRecord(op, args, r) ==
    [op |-> op, args |-> args, exc |-> r.c.exc,
     ret |-> IF Failed(r.c) THEN "None" ELSE r.c.ret,
     to |-> Addresses(r.c.sent), cmds |-> Cmds(r.c.sent),
     got |-> [i \in 1..Len(r.c.lines) |-> StatusOfLine(r.c.lines[i])],
     data |-> [i \in 1..Len(r.c.lines) |-> DataOfLine(r.c.lines[i])],
     dev0 |-> dev]

FleetFinish(op, args, r) ==
    /\ \E r0 \in {r} :
          /\ dev' = r0.devs
          /\ last' = FleetRecord(op, args, r0)
    /\ phase' = "returned"
    /\ UNCHANGED <<pumpObj, busVars, qlock>>

\* the run a call of the controller starts with
NewRun(fates) == [devs |-> dev, c |-> NewContext(dev["water"], fates)]

\* the lists of names callers give
FleetLists ==
    {<<"water">>, <<"water", "acetone">>, <<"acetone", "water">>,
     <<"water", "acetone", "ethanol">>}

\* the faults of a call of the controller: none, or one faulty exchange
FleetScripts ==
    {<<>>} \cup {Rep(at - 1, OkFate) \o <<f>> :
                    at \in 1..MaxFaultAt, f \in {TimeoutFate, StatusFate("i")}}

\* three pumps on one line: water and acetone with an empty, a half full or
\* a full syringe, water at rest or moving, acetone left at another velocity
InitFleet ==
    /\ lock = FALSE
    /\ tpc = [t \in Threads |-> "idle"]
    /\ waiting = <<>>
    /\ tops = [t \in Threads |-> <<>>]
    /\ tres = [t \in Threads |-> "none"]
    /\ ncalls = [t \in Threads |-> 0]
    /\ inBuf = <<>>
    /\ onWire = {}
    /\ qlock = <<>>
    /\ pumpObj = MultiPumpController
    /\ \E pw \in {0, 12000, 24000}, pa \in {0, 12000, 24000}, bw \in {0, BusyPolls} :
          dev = [name \in PumpNames |->
                    [pos |-> CASE name = "water" -> pw [] name = "acetone" -> pa
                               [] OTHER -> 0,
                     valve |-> "i",
                     vel |-> IF name = "acetone" THEN 3000 ELSE 6000,
                     init |-> TRUE,
                     busy |-> IF name = "water" THEN bw ELSE 0,
                     fails |-> 0, stuck |-> 0]]
    /\ phase = "ready"
    /\ last = <<>>

CallMultiPump ==
    /\ phase = "ready"
    /\ \E pump_names \in FleetLists, volume_in_ml \in {SyringeVolume \div 2, SyringeVolume},
          from_valve \in {OptNone, Opt("O")}, speed_in \in {OptNone, Opt(3000)},
          wait \in BOOLEAN, secure \in BOOLEAN, fates \in FleetScripts :
          FleetFinish("pump",
              [pump_names |-> pump_names, volume_in_ml |-> volume_in_ml,
               valve |-> from_valve, speed |-> speed_in, wait |-> wait,
               secure |-> secure, fates |-> fates],
              Multi_pump(pumpObj, NewRun(fates), pump_names, volume_in_ml, from_valve,
                         speed_in, wait, secure))

CallMultiDeliver ==
    /\ phase = "ready"
    /\ \E pump_names \in FleetLists, volume_in_ml \in {SyringeVolume \div 2, SyringeVolume},
          to_valve \in {OptNone, Opt("O")}, speed_out \in {OptNone, Opt(3000)},
          wait \in BOOLEAN, secure \in BOOLEAN, fates \in FleetScripts :
          FleetFinish("deliver",
              [pump_names |-> pump_names, volume_in_ml |-> volume_in_ml,
               valve |-> to_valve, speed |-> speed_out, wait |-> wait,
               secure |-> secure, fates |-> fates],
              Multi_deliver(pumpObj, NewRun(fates), pump_names, volume_in_ml, to_valve,
                            speed_out, wait, secure))

NextFleet ==
    \/ CallMultiPump
    \/ CallMultiDeliver

SpecFleet == InitFleet /\ [][NextFleet]_vars

(***************************************************************************)
(* C21: set-up of all pumps, then motion of all pumps, then one wait       *)
(***************************************************************************)
C21_Called == phase = "returned" /\ last.op \in {"pump", "deliver"}

C21_Names == {last.args.pump_names[i] : i \in 1..Len(last.args.pump_names)}

\* the exchanges of the last call that carry a pump or deliver command
C21_Motions == {i \in 1..Len(last.cmds) : IsMove(last.cmds[i])}

\* exchange i is the given command to the named pump
C21_Sent(i, name, cmd) == last.to[i] = pumpObj[name].address /\ last.cmds[i] = cmd

\* exchange i is a status poll answered idle by the pump of exchange m
C21_IdleReport(i, m) ==
    /\ last.to[i] = last.to[m]
    /\ last.cmds[i] = CMD_REPORT_STATUS
    /\ last.got[i] = STATUS_IDLE_ERROR_FREE

\* no pump answered an exchange of the last call with an error status
C21_NoErrorStatus ==
    \A i \in 1..Len(last.got) :
        last.got[i] \in {STATUS_IDLE_ERROR_FREE, STATUS_BUSY_ERROR_FREE, ""}

\* C21: in MultiPumpController.pump and deliver the velocity set-up (which
\* starts with reading the velocity) and, when a valve is given, the valve
\* set-up (which starts with reading the valve) of every named pump
\* precede the first motion command, after which, unless a pump answered
\* with an error status, no velocity or valve command is sent; no status poll is made between two motion commands; and a call with wait=True that returns has, after
\* each motion command, an idle report of the pump it went to.
C21_SetupMotionWait ==
    C21_Called =>
        /\ \A m \in C21_Motions, name \in C21_Names :
               /\ \E i \in 1..(m - 1) : C21_Sent(i, name, CMD_REPORT_PEAK_VELOCITY)
               /\ last.args.valve # <<>> =>
                      \E i \in 1..(m - 1) : C21_Sent(i, name, CMD_REPORT_VALVE_POSITION)
        /\ C21_NoErrorStatus =>
               \A m \in C21_Motions :
                   \A k \in (m + 1)..Len(last.cmds) :
                       Head(last.cmds[k]) \notin {"V", "I", "O", "B", "E"}
        /\ \A m \in C21_Motions, n \in C21_Motions, k \in 1..Len(last.cmds) :
               m < k /\ k < n => last.cmds[k] # CMD_REPORT_STATUS
        /\ (last.args.wait /\ last.exc = "none") =>
               \A m \in C21_Motions :
                   \E k \in (m + 1)..Len(last.cmds) : C21_IdleReport(k, m)

\* pump with wait=True on three pumps, all of which were sent a motion
\* command, returned
C21_Witness ==
    /\ C21_Called
    /\ last.args.wait /\ last.exc = "none"
    /\ Len(last.args.pump_names) = 3
    /\ last.args.valve # <<>>
    /\ Cardinality(C21_Motions) = 3

(***************************************************************************)
(* MultiPumpController.transfer (SpecFleetTransfer)                        *)
(***************************************************************************)
\* min(candidate, volume_transferred), volume_transferred starting at
\* float('inf'): <<>> stands for inf
MinInf(candidate, least) ==
    IF least = <<>> THEN <<candidate>> ELSE <<Min(candidate, least[1])>>

\* the loop over self.get_pumps(pump_names), which leaves out the names the
\* controller does not know: returns volume_transferred
RECURSIVE VolumeTransferred(_, _, _, _, _, _)
VolumeTransferred(pumps, r, pump_names, volume_in_ml, i, least) ==
    CHOOSE after \in
        {IF Failed(r0.c) THEN r0
         ELSE IF i > Len(pump_names) THEN [r0 EXCEPT !.c = Return(@, least)]
         ELSE IF pump_names[i] \notin DOMAIN pumps
         THEN VolumeTransferred(pumps, r0, pump_names, volume_in_ml, i + 1, least)
         ELSE CHOOSE read \in
                  {VolumeTransferred(pumps,
                       [devs |-> [r0.devs EXCEPT ![pump_names[i]] = c1.dev], c |-> c1],
                       pump_names, volume_in_ml, i + 1,
                       IF Failed(c1) THEN least
                       ELSE MinInf(Min(volume_in_ml, c1.ret), least)) :
                   c1 \in {remaining_volume(pumps[pump_names[i]],
                               [r0.c EXCEPT !.dev = r0.devs[pump_names[i]]])}} : TRUE :
         r0 \in {r}} : TRUE

\* MultiPumpController.transfer at the given depth of recursion; volumes
\* are in ticks.  With no pump to ask, volume_transferred stays inf, which
\* no pump is given (0 stands for it) and which leaves nothing to transfer.
RECURSIVE MultiTransferFrom(_, _, _, _, _, _, _, _, _, _)
MultiTransferFrom(pumps, r, pump_names, volume_in_ml, from_valve, to_valve, speed_in, speed_out, secure, depth) ==
    IF depth >= MaxRecursion THEN [r EXCEPT !.c = Raise(@, "RecursionError")]
    ELSE CHOOSE after \in
        {CHOOSE done \in
             {IF Failed(r2.c) THEN r2
              ELSE IF r1.c.ret # <<>> /\ volume_in_ml - r1.c.ret[1] > 0
              \* self.transfer(pump_names, remaining, from_valve, to_valve,
              \*               speed_in, speed_out): secure is not passed on
              THEN MultiTransferFrom(pumps, r2, pump_names,
                       volume_in_ml - r1.c.ret[1], from_valve, to_valve,
                       speed_in, speed_out, TRUE, depth + 1)
              ELSE [r2 EXCEPT !.c = Return(@, "None")] :
              r2 \in {IF Failed(r1.c) THEN r1
                      ELSE Multi_deliver(pumps,
                               Multi_pump(pumps, r1, pump_names,
                                   IF r1.c.ret = <<>> THEN 0 ELSE r1.c.ret[1],
                                   Opt(from_valve), speed_in, TRUE, secure),
                               pump_names,
                               IF r1.c.ret = <<>> THEN 0 ELSE r1.c.ret[1],
                               Opt(to_valve), speed_out, TRUE, secure)}} : TRUE :
         r1 \in {VolumeTransferred(pumps, r, pump_names, volume_in_ml, 1, <<>>)}} : TRUE

\* MultiPumpController.transfer
Multi_transfer(pumps, r, pump_names, volume_in_ml, from_valve, to_valve, speed_in, speed_out, secure) ==
    MultiTransferFrom(pumps, r, pump_names, volume_in_ml, from_valve, to_valve,
                      speed_in, speed_out, secure, 0)

\* the lists of names given to transfer: one has a name the controller
\* does not know
FleetTransferLists ==
    {<<"water">>, <<"water", "acetone">>, <<"acetone", "water", "ethanol">>,
     <<"water", "ghost">>}

\* volumes to transfer: half a syringe, a syringe, a syringe and a half
FleetTransferVolumes == {SyringeVolume \div 2, SyringeVolume, (3 * SyringeVolume) \div 2}

\* the faults of a transfer: none, or a timeout of one exchange
FleetTransferScripts == {<<>>, Rep(MaxFaultAt - 1, OkFate) \o <<TimeoutFate>>}

CallMultiTransfer ==
    /\ phase = "ready"
    /\ \E pump_names \in FleetTransferLists, volume_in_ml \in FleetTransferVolumes,
          valves \in {<<"I", "O">>}, speed \in {OptNone, Opt(3000)},
          secure \in BOOLEAN, fates \in FleetTransferScripts :
          FleetFinish("transfer",
              [pump_names |-> pump_names, volume_in_ml |-> volume_in_ml,
               from_valve |-> valves[1], to_valve |-> valves[2], speed |-> speed,
               secure |-> secure, fates |-> fates],
              Multi_transfer(pumpObj, NewRun(fates), pump_names, volume_in_ml,
                             valves[1], valves[2], speed, speed, secure))

NextFleetTransfer ==
    \/ CallMultiTransfer

SpecFleetTransfer == InitFleet /\ [][NextFleetTransfer]_vars

(***************************************************************************)
(* C22: the rounds of MultiPumpController.transfer                         *)
(***************************************************************************)
\* transfer on pumps the controller knows, on a line without faults
C22_Called ==
    /\ Returned("transfer")
    /\ last.args.fates = <<>>
    /\ \A i \in 1..Len(last.args.pump_names) : last.args.pump_names[i] \in PumpNames

C22_Names == {last.args.pump_names[i] : i \in 1..Len(last.args.pump_names)}

\* the pump and deliver commands sent to the named pump, in order
C22_MovesOf(name) ==
    LET Exchanges == [i \in 1..Len(last.cmds) |-> <<last.to[i], last.cmds[i]>>]
        Mine(e) == e[1] = pumpObj[name].address /\ IsMove(e[2])
        Sel == SelectSeq(Exchanges, Mine)
    IN  [i \in 1..Len(Sel) |-> Sel[i][2]]

\* the remaining volume of the named pump when the call began; a round
\* that pumps and delivers the same chunk leaves it as it was
C22_Remaining(name) ==
    pumpObj[name].total_volume - step_to_volume(pumpObj[name], last.dev0[name].pos)

\* the least remaining volume of the named pumps
C22_Capacity ==
    CHOOSE least \in {C22_Remaining(name) : name \in C22_Names} :
        \A name \in C22_Names : least <= C22_Remaining(name)

\* the moves are rounds of one pump and one deliver command of the chunk
\* min(volume still requested, least remaining volume)
RECURSIVE C22_RoundsFrom(_, _, _)
C22_RoundsFrom(self, moves, left) ==
    \/ moves = <<>>
    \/ /\ Len(moves) >= 2
       /\ moves[1] = CMD_PUMP \o IntToStr(volume_to_step(self, Min(left, C22_Capacity)))
       /\ moves[2] = CMD_DELIVER \o IntToStr(volume_to_step(self, Min(left, C22_Capacity)))
       /\ C22_RoundsFrom(self, Tail(Tail(moves)), left - Min(left, C22_Capacity))

C22_SameChunk ==
    \A name \in C22_Names :
        C22_RoundsFrom(pumpObj[name], C22_MovesOf(name), last.args.volume_in_ml)

C22_SumsToRequest ==
    /\ last.exc = "none"
    /\ \A name \in C22_Names :
           /\ StepsOf(C22_MovesOf(name), "P")
                 = volume_to_step(pumpObj[name], last.args.volume_in_ml)
           /\ StepsOf(C22_MovesOf(name), "D")
                 = volume_to_step(pumpObj[name], last.args.volume_in_ml)

\* C22: in every round of MultiPumpController.transfer all named pumps are
\* commanded to pump and then to deliver the same chunk, the minimum of the
\* volume still requested and every named pump's remaining volume at the
\* start of the round, and the chunks of all rounds sum to the requested
\* volume.
\* (Refuted: with a named pump whose syringe is full every chunk is 0 and
\* the recursion goes on until the interpreter raises RecursionError.)
C22_SameChunkSumsToRequest ==
    C22_Called => (C22_SameChunk /\ C22_SumsToRequest)

\* what holds of the rounds: when no named syringe is full each round is
\* the same chunk for all named pumps and the chunks sum to the request;
\* when one is full every round commands a pump of 0 steps and no deliver
\* (deliver returns at a volume of 0), until RecursionError
C22_SameChunkEachRound ==
    C22_Called =>
        /\ C22_Capacity > 0 => (C22_SameChunk /\ C22_SumsToRequest)
        /\ C22_Capacity = 0 =>
               /\ last.exc = "RecursionError"
               /\ \A name \in C22_Names :
                      C22_MovesOf(name) = Rep(MaxRecursion, CMD_PUMP \o <<"0">>)

\* a syringe and a half through an empty and a half full syringe: three
\* rounds of half a syringe
C22_Witness ==
    /\ C22_Called
    /\ last.args.pump_names = <<"water", "acetone">>
    /\ last.exc = "none"
    /\ C22_Capacity = SyringeVolume \div 2
    /\ Len(C22_MovesOf("acetone")) = 6

(***************************************************************************)
(* MultiPumpController.parallel_transfer (SpecParallel).  The dict         *)
(* pumps_and_volumes_dict is the sequence of its items <<name, volume>>,   *)
(* in the order of insertion; volumes are in ticks.                        *)
(***************************************************************************)
\* list(pumps_and_volumes_dict.keys())
Keys(dict) == [i \in 1..Len(dict) |-> dict[i][1]]

\* the first loop, from the i-th item on; chunks holds the values put into
\* volume_to_transfer.  Returns whether every name was found, and the chunks.
RECURSIVE PumpPhase(_, _, _, _, _, _, _, _)
PumpPhase(pumps, r, dict, from_valve, speed_in, secure, i, chunks) ==
    CHOOSE after \in
        {IF Failed(r0.c) THEN r0
         ELSE IF i > Len(dict)
         THEN [r0 EXCEPT !.c = Return(@, [found |-> TRUE, chunks |-> chunks])]
         \* except KeyError: warning; return False
         ELSE IF dict[i][1] \notin DOMAIN pumps
         THEN [r0 EXCEPT !.c = Return(@, [found |-> FALSE, chunks |-> chunks])]
         ELSE CHOOSE pumped \in
                  {IF Failed(c1)
                   THEN [devs |-> [r0.devs EXCEPT ![dict[i][1]] = c1.dev], c |-> c1]
                   ELSE PumpPhase(pumps,
                            CallOn(pumps,
                                [devs |-> [r0.devs EXCEPT ![dict[i][1]] = c1.dev],
                                 c |-> c1],
                                dict[i][1], "pump",
                                <<Min(dict[i][2], c1.ret), Opt(from_valve), speed_in,
                                  FALSE, secure>>),
                            dict, from_valve, speed_in, secure, i + 1,
                            Append(chunks, Min(dict[i][2], c1.ret))) :
                   c1 \in {remaining_volume(pumps[dict[i][1]],
                               [r0.c EXCEPT !.dev = r0.devs[dict[i][1]]])}} : TRUE :
         r0 \in {r}} : TRUE

\* the second loop, from the i-th item of volume_to_transfer on:
\* pump.deliver(volume_in_ml=..., wait=False, to_valve=..., speed_out=...)
RECURSIVE DeliverPhase(_, _, _, _, _, _, _)
DeliverPhase(pumps, r, dict, chunks, to_valve, speed_out, i) ==
    IF i > Len(chunks) THEN r
    ELSE DeliverPhase(pumps,
             CallOn(pumps, r, dict[i][1], "deliver",
                    <<chunks[i], Opt(to_valve), speed_out, FALSE, TRUE>>),
             dict, chunks, to_valve, speed_out, i + 1)

\* left_to_pump: the items of remaining_volume that are > 0
LeftToPump(dict, chunks) ==
    LET Remaining == [i \in 1..Len(dict) |-> <<dict[i][1], dict[i][2] - chunks[i]>>]
        Positive(item) == item[2] > 0
    IN  SelectSeq(Remaining, Positive)

\* return True
ReturnTrue(r) ==
    CHOOSE after \in
        {IF Failed(r0.c) THEN r0 ELSE [r0 EXCEPT !.c = Return(@, TRUE)] :
         r0 \in {r}} : TRUE

\* The mutant of ParallelTransferFrom: no wait between the pump phase and
\* the deliver phase.
RECURSIVE ParallelTransferNoBarrier(_, _, _, _, _, _, _, _, _, _)
ParallelTransferNoBarrier(pumps, r, dict, from_valve, to_valve, speed_in, speed_out, secure, wait, depth) ==
    IF depth >= MaxRecursion THEN [r EXCEPT !.c = Raise(@, "RecursionError")]
    ELSE CHOOSE after \in
        {IF Failed(p.c) THEN p
         ELSE IF ~p.c.ret.found THEN [p EXCEPT !.c = Return(@, FALSE)]
         ELSE CHOOSE done \in
                  {IF Failed(d.c) THEN d
                   ELSE IF LeftToPump(dict, p.c.ret.chunks) # <<>>
                   THEN ReturnTrue(ParallelTransferNoBarrier(pumps, d,
                            LeftToPump(dict, p.c.ret.chunks), from_valve, to_valve,
                            speed_in, speed_out, secure, FALSE, depth + 1))
                   ELSE ReturnTrue(IF wait
                                   THEN Apply(pumps, d, Keys(dict), "wait_until_idle", <<>>)
                                   ELSE d) :
                   d \in {DeliverPhase(pumps, p, dict, p.c.ret.chunks, to_valve,
                                       speed_out, 1)}} : TRUE :
         p \in {PumpPhase(pumps,
                          Apply(pumps, r, Keys(dict), "wait_until_idle", <<>>),
                          dict, from_valve, speed_in, secure, 1, <<>>)}} : TRUE

\* MultiPumpController.parallel_transfer at the given depth of recursion
RECURSIVE ParallelTransferFrom(_, _, _, _, _, _, _, _, _, _)
ParallelTransferFrom(pumps, r, dict, from_valve, to_valve, speed_in, speed_out, secure, wait, depth) ==
    IF depth >= MaxRecursion THEN [r EXCEPT !.c = Raise(@, "RecursionError")]
    ELSE CHOOSE after \in
        {IF Failed(p.c) THEN p
         ELSE IF ~p.c.ret.found THEN [p EXCEPT !.c = Return(@, FALSE)]
         ELSE CHOOSE done \in
                  {IF Failed(d.c) THEN d
                   ELSE IF LeftToPump(dict, p.c.ret.chunks) # <<>>
                   \* self.parallel_transfer(left_to_pump, from_valve, to_valve,
                   \*     speed_in, speed_out, secure): wait is not passed on
                   THEN ReturnTrue(ParallelTransferFrom(pumps, d,
                            LeftToPump(dict, p.c.ret.chunks), from_valve, to_valve,
                            speed_in, speed_out, secure, FALSE, depth + 1))
                   ELSE ReturnTrue(IF wait
                                   THEN Apply(pumps, d, Keys(dict), "wait_until_idle", <<>>)
                                   ELSE d) :
                   d \in {DeliverPhase(pumps,
                              Apply(pumps, p, Keys(dict), "wait_until_idle", <<>>),
                              dict, p.c.ret.chunks, to_valve, speed_out, 1)}} : TRUE :
         p \in {PumpPhase(pumps,
                          Apply(pumps, r, Keys(dict), "wait_until_idle", <<>>),
                          dict, from_valve, speed_in, secure, 1, <<>>)}} : TRUE

\* MultiPumpController.parallel_transfer
parallel_transfer(pumps, r, dict, from_valve, to_valve, speed_in, speed_out, secure, wait) ==
    ParallelTransferFrom(pumps, r, dict, from_valve, to_valve, speed_in, speed_out,
                         secure, wait, 0)

\* the dicts callers give: one to three pumps, targets of half a syringe
\* to a syringe and a half, and one with a name the controller does not know
ParallelDicts ==
    {<<<<"water", SyringeVolume \div 2>>>>,
     <<<<"water", (3 * SyringeVolume) \div 2>>>>,
     <<<<"water", SyringeVolume>>, <<"acetone", SyringeVolume \div 2>>>>,
     <<<<"water", SyringeVolume \div 2>>, <<"acetone", (3 * SyringeVolume) \div 2>>>>,
     <<<<"acetone", SyringeVolume>>, <<"water", SyringeVolume>>,
       <<"ethanol", SyringeVolume \div 2>>>>,
     <<<<"water", SyringeVolume \div 2>>, <<"ghost", SyringeVolume \div 2>>>>}

CallParallelTransfer ==
    /\ phase = "ready"
    /\ \E dict \in ParallelDicts, speed \in {OptNone, Opt(3000)}, secure \in BOOLEAN,
          wait \in BOOLEAN, fates \in FleetTransferScripts :
          FleetFinish("parallel_transfer",
              [pumps_and_volumes_dict |-> dict, from_valve |-> "I", to_valve |-> "O",
               speed |-> speed, secure |-> secure, wait |-> wait, fates |-> fates],
              parallel_transfer(pumpObj, NewRun(fates), dict, "I", "O", speed, speed,
                                secure, wait))

NextParallel ==
    \/ CallParallelTransfer

SpecParallel == InitFleet /\ [][NextParallel]_vars

(***************************************************************************)
(* C23: the rounds of parallel_transfer                                    *)
(***************************************************************************)
\* parallel_transfer on pumps the controller knows
C23_Called ==
    /\ Returned("parallel_transfer")
    /\ \A i \in 1..Len(last.args.pumps_and_volumes_dict) :
           last.args.pumps_and_volumes_dict[i][1] \in PumpNames

C23_Items ==
    {last.args.pumps_and_volumes_dict[i] : i \in 1..Len(last.args.pumps_and_volumes_dict)}

\* exchange i carries a pump (opcode "P") or deliver ("D") command
C23_Is(i, opcode) == Head(last.cmds[i]) = opcode

\* the round of a motion command: the number of pump commands its pump has
\* been sent up to it
C23_RoundOf(i) ==
    Cardinality({j \in 1..i : C23_Is(j, "P") /\ last.to[j] = last.to[i]})

\* between exchanges i and j the pump of exchange i reports idle
C23_IdleBetween(i, j) == \E k \in (i + 1)..(j - 1) : C21_IdleReport(k, i)

\* the moves of one pump are rounds of the chunk min(target still
\* outstanding, own remaining volume): a pump and a deliver command each
RECURSIVE C23_RoundsFrom(_, _, _, _)
C23_RoundsFrom(self, moves, left, own) ==
    IF left <= 0 THEN moves = <<>>
    ELSE /\ Len(moves) >= 2
         /\ moves[1] = CMD_PUMP \o IntToStr(volume_to_step(self, Min(left, own)))
         /\ moves[2] = CMD_DELIVER \o IntToStr(volume_to_step(self, Min(left, own)))
         /\ C23_RoundsFrom(self, Tail(Tail(moves)), left - Min(left, own), own)

\* C23: in each round of parallel_transfer every pump's chunk is the
\* minimum of its outstanding target and its own remaining volume, and the
\* next round holds exactly the pumps with a remainder > 0 (on a line
\* without faults the moves of each pump are the rounds of its own chunks;
\* a full syringe gives chunks of 0, a pump command of 0 steps per round);
\* the pump commands of a round are sent without waiting for a pump
\* already commanded; no deliver command is sent before every pump of the
\* round has reported idle after its pump command; and a pump gets the
\* pump command of its next round only after the deliver commands of the
\* round and after it has reported idle from its own.
C23_ParallelRounds ==
    C23_Called =>
        /\ last.args.fates = <<>> =>
               \A item \in C23_Items :
                   IF C22_Remaining(item[1]) > 0
                   THEN C23_RoundsFrom(pumpObj[item[1]], C22_MovesOf(item[1]), item[2],
                                       C22_Remaining(item[1]))
                   ELSE C22_MovesOf(item[1]) = Rep(MaxRecursion, CMD_PUMP \o <<"0">>)
        /\ \A i \in 1..Len(last.cmds), j \in 1..Len(last.cmds) :
               /\ (C23_Is(i, "P") /\ C23_Is(j, "P") /\ i < j
                     /\ C23_RoundOf(i) = C23_RoundOf(j)) =>
                      \A k \in (i + 1)..(j - 1) :
                          ~(last.cmds[k] = CMD_REPORT_STATUS /\ last.to[k] = last.to[i])
               /\ (C23_Is(i, "P") /\ C23_Is(j, "D") /\ C23_RoundOf(i) = C23_RoundOf(j)) =>
                      (i < j /\ C23_IdleBetween(i, j))
               /\ (C23_Is(i, "D") /\ C23_Is(j, "P") /\ C23_RoundOf(i) < C23_RoundOf(j)) =>
                      (i < j /\ (last.to[i] = last.to[j] => C23_IdleBetween(i, j)))

\* two rounds: water (half full) needs two for its syringe, acetone one
C23_Witness ==
    /\ C23_Called
    /\ last.exc = "none"
    /\ last.args.pumps_and_volumes_dict
         = <<<<"water", SyringeVolume>>, <<"acetone", SyringeVolume \div 2>>>>
    /\ last.dev0["water"].pos = 12000
    /\ Len(C22_MovesOf("water")) = 4
    /\ Len(C22_MovesOf("acetone")) = 2

(***************************************************************************)
(* C28: parallel_transfer with wait=True                                   *)
(***************************************************************************)
\* parallel_transfer(..., wait=True) on known pumps returned
C28_Waited == C23_Called /\ last.args.wait /\ last.exc = "none"

\* every pump has reported idle after each deliver command sent to it, and
\* is at rest
C28_AllIdle ==
    /\ \A i \in 1..Len(last.cmds) :
           C23_Is(i, "D") => \E k \in (i + 1)..Len(last.cmds) : C21_IdleReport(k, i)
    /\ \A item \in C23_Items : dev[item[1]].busy = 0

\* the call ran more than one round: some pump was sent two pump commands
C28_SeveralRounds == \E i \in 1..Len(last.cmds) : C23_Is(i, "P") /\ C23_RoundOf(i) > 1

\* C28: parallel_transfer called with wait=True returns only when every
\* pump of the original dict is idle after its last deliver, whether the
\* transfer needed one round or several.
\* (Refuted: the recursive call does not pass wait on, and the wait of the
\* outer call is skipped when it recursed.)
C28_ReturnsWhenAllIdle == C28_Waited => C28_AllIdle

\* what holds: a transfer of one round returns with all pumps idle
C28_OneRoundReturnsIdle == (C28_Waited /\ ~C28_SeveralRounds) => C28_AllIdle

\* what happens otherwise: after several rounds the pumps of the last
\* round are still delivering at the return
C28_SeveralRoundsReturnBusy ==
    (C28_Waited /\ C28_SeveralRounds /\ last.args.fates = <<>>) => ~C28_AllIdle

(***************************************************************************)
(* C29: parallel_transfer with a name the controller does not know         *)
(***************************************************************************)
\* parallel_transfer with an unknown name in its dict, on a line without
\* faults
C29_UnknownName ==
    /\ Returned("parallel_transfer")
    /\ last.args.fates = <<>>
    /\ \E i \in 1..Len(last.args.pumps_and_volumes_dict) :
           last.args.pumps_and_volumes_dict[i][1] \notin DOMAIN pumpObj

\* C29: parallel_transfer given a dict with a pump name that is not in the
\* controller returns False (after a warning); it does not raise, and it
\* sends no pump or deliver command for the unknown name.
\* (Refuted: the wait_until_idle fan-out over the keys of the dict, made
\* before the loop that catches KeyError, raises KeyError.)
C29_ReturnsFalse ==
    C29_UnknownName =>
        /\ last.exc = "none"
        /\ last.ret = FALSE

\* what happens: KeyError, raised after the pumps named before the unknown
\* name were polled until idle and before any pump or deliver command
C29_RaisesKeyError ==
    C29_UnknownName =>
        /\ last.exc = "KeyError"
        /\ \A i \in 1..Len(last.cmds) : last.cmds[i] = CMD_REPORT_STATUS
        /\ Len(last.cmds) >= 1

(***************************************************************************)
(* MultiPumpController.smart_initialize (SpecFleetInit)                    *)
(***************************************************************************)
\* list(self.pumps.keys()): the pumps in the order of the configuration
PumpOrder == <<"water", "acetone", "ethanol">>

\* the call the k-th loop of smart_initialize makes on a pump that is not
\* initialized
PhaseCall(self, k, secure) ==
    CASE k = 1 -> [command |-> "initialize_valve_only", args |-> <<FALSE>>]
      [] k = 2 -> [command |-> "set_valve_position",
                   args |-> <<self.initialize_valve_position, secure>>]
      [] k = 3 -> [command |-> "initialize_no_valve", args |-> <<FALSE>>]

\* The mutant of InitPhase: the call is made on every pump.
RECURSIVE InitPhaseAll(_, _, _, _, _)
InitPhaseAll(pumps, r, k, secure, i) ==
    IF i > Len(PumpOrder) THEN r
    ELSE InitPhaseAll(pumps,
             CallOn(pumps, r, PumpOrder[i],
                    PhaseCall(pumps[PumpOrder[i]], k, secure).command,
                    PhaseCall(pumps[PumpOrder[i]], k, secure).args),
             k, secure, i + 1)

\* the k-th loop of smart_initialize from the i-th pump on:
\* if not pump.is_initialized(): pump.<call of the phase>
RECURSIVE InitPhase(_, _, _, _, _)
InitPhase(pumps, r, k, secure, i) ==
    IF i > Len(PumpOrder) THEN r
    ELSE CHOOSE after \in
        {IF Failed(q.c) THEN q
         ELSE InitPhase(pumps,
                  IF q.c.ret THEN q
                  ELSE CallOn(pumps, q, PumpOrder[i],
                              PhaseCall(pumps[PumpOrder[i]], k, secure).command,
                              PhaseCall(pumps[PumpOrder[i]], k, secure).args),
                  k, secure, i + 1) :
         q \in {CallOn(pumps, r, PumpOrder[i], "is_initialized", <<>>)}} : TRUE

\* the three loops, each followed by self.wait_until_all_pumps_idle()
RECURSIVE InitPhases(_, _, _, _)
InitPhases(pumps, r, secure, k) ==
    IF k > 3 THEN r
    ELSE InitPhases(pumps,
             Apply(pumps, InitPhase(pumps, r, k, secure, 1), PumpOrder,
                   "wait_until_idle", <<>>),
             secure, k + 1)

\* MultiPumpController.smart_initialize
Multi_smart_initialize(pumps, r, secure) ==
    ReturnNone(
        Apply(pumps,
              Apply(pumps, InitPhases(pumps, r, secure, 1), PumpOrder,
                    "init_all_pump_parameters", <<secure>>),
              PumpOrder, "wait_until_idle", <<>>))

\* the faults of an initialisation: none, or one exchange that times out
\* or is answered with an error status
FleetInitScripts ==
    {<<>>, Rep(MaxFaultAt - 1, OkFate) \o <<TimeoutFate>>, <<OkFate, StatusFate("i")>>}

\* three pumps, each initialized or not when the controller starts; the
\* plunger of water may fail its first initialisation
InitFleetInit ==
    /\ lock = FALSE
    /\ tpc = [t \in Threads |-> "idle"]
    /\ waiting = <<>>
    /\ tops = [t \in Threads |-> <<>>]
    /\ tres = [t \in Threads |-> "none"]
    /\ ncalls = [t \in Threads |-> 0]
    /\ inBuf = <<>>
    /\ onWire = {}
    /\ qlock = <<>>
    /\ pumpObj = MultiPumpController
    /\ \E w \in {[init |-> FALSE, fails |-> 0, pos |-> 0],
                  [init |-> FALSE, fails |-> 1, pos |-> 0],
                  [init |-> TRUE, fails |-> 0, pos |-> 24000]},
          vw \in {"i", "o"}, ia \in BOOLEAN, ie \in BOOLEAN :
          dev = [name \in PumpNames |->
                    [pos |-> IF name = "water" THEN w.pos ELSE 0,
                     valve |-> IF name = "water" THEN vw ELSE "o",
                     vel |-> IF name = "acetone" THEN 3000 ELSE 6000,
                     init |-> CASE name = "water" -> w.init [] name = "acetone" -> ia
                                [] OTHER -> ie,
                     busy |-> 0,
                     fails |-> IF name = "water" THEN w.fails ELSE 0,
                     stuck |-> 0]]
    /\ phase = "ready"
    /\ last = <<>>

CallMultiSmartInitialize ==
    /\ phase = "ready"
    /\ \E secure \in BOOLEAN, fates \in FleetInitScripts :
          FleetFinish("smart_initialize", [secure |-> secure, fates |-> fates],
                      Multi_smart_initialize(pumpObj, NewRun(fates), secure))

NextFleetInit ==
    \/ CallMultiSmartInitialize

SpecFleetInit == InitFleetInit /\ [][NextFleetInit]_vars

(***************************************************************************)
(* C30: smart_initialize of the controller leaves initialized pumps alone  *)
(***************************************************************************)
C30_Called == Returned("smart_initialize")

\* the phase of smart_initialize a command belongs to (0: none): valve
\* initialisation, select of the initialisation valve, plunger
\* initialisation, parameters
C30_PhaseOf(cmd) ==
    CASE Head(cmd) = "w" -> 1
      [] cmd = CMD_VALVE_INPUT -> 2
      [] Head(cmd) = "W" -> 3
      [] Head(cmd) \in {"N", "V"} -> 4
      [] OTHER -> 0

\* the pump of exchange i reported not initialized in its last report
\* before it
C30_ReportedUninitialized(i) ==
    \E j \in 1..(i - 1) :
        /\ last.to[j] = last.to[i]
        /\ last.cmds[j] = CMD_REPORT_INTIALIZED
        /\ last.data[j] = <<"0">>
        /\ \A k \in (j + 1)..(i - 1) :
               ~(last.to[k] = last.to[i] /\ last.cmds[k] = CMD_REPORT_INTIALIZED)

\* between exchanges i and j every pump of the controller reports idle
C30_AllIdleBetween(i, j) ==
    \A name \in PumpNames :
        \E k \in (i + 1)..(j - 1) :
            /\ C21_Sent(k, name, CMD_REPORT_STATUS)
            /\ last.got[k] = STATUS_IDLE_ERROR_FREE

\* C30: smart_initialize of the controller sends a valve initialisation, a
\* select of the initialisation valve or a plunger initialisation only to
\* a pump whose last report before it said not initialized; a command of a
\* later phase comes after every command of an earlier phase, all pumps
\* having reported idle in between; and a call that returns has sent the
\* parameters (the microstep mode) to every pump.
C30_SmartInitialize ==
    C30_Called =>
        /\ \A i \in 1..Len(last.cmds) :
               C30_PhaseOf(last.cmds[i]) \in {1, 2, 3} => C30_ReportedUninitialized(i)
        /\ \A i \in 1..Len(last.cmds), j \in 1..Len(last.cmds) :
               (/\ C30_PhaseOf(last.cmds[i]) > 0
                /\ C30_PhaseOf(last.cmds[i]) < C30_PhaseOf(last.cmds[j])) =>
                   (i < j /\ C30_AllIdleBetween(i, j))
        /\ last.exc = "none" =>
               \A name \in PumpNames :
                   \E i \in 1..Len(last.cmds) :
                       last.to[i] = pumpObj[name].address /\ Head(last.cmds[i]) = "N"

\* water not initialized, acetone initialized: water is initialized, acetone
\* is sent parameters only
C30_Witness ==
    /\ C30_Called
    /\ last.exc = "none"
    /\ ~last.dev0["water"].init /\ last.dev0["acetone"].init
    /\ dev["water"].init
    /\ \E i \in 1..Len(last.cmds) : C21_Sent(i, "water", CMD_VALVE_INPUT)
    /\ \E i \in 1..Len(last.cmds) :
           last.to[i] = pumpObj["acetone"].address /\ Head(last.cmds[i]) = "V"
    /\ \A i \in 1..Len(last.cmds) :
           last.to[i] = pumpObj["acetone"].address => C30_PhaseOf(last.cmds[i]) \in {0, 4}

(***************************************************************************)
(* The bytes of a packet (SpecPacket): C3000Protocol.forge_packet on a     *)
(* list of commands and DTInstructionPacket.to_array.  A byte is a string  *)
(* of one character, "<CR>" standing for the carriage return.              *)
(***************************************************************************)
\* C3000SwitchToAddress: the address of a pump from the switch at its back
C3000SwitchToAddress ==
    [sw \in {"0", "1", "2", "3", "4", "5", "6", "7", "8", "9", "A", "B", "C", "D", "E",
             "BROADCAST"} |->
        CASE sw = "0" -> "1" [] sw = "1" -> "2" [] sw = "2" -> "3" [] sw = "3" -> "4"
          [] sw = "4" -> "5" [] sw = "5" -> "6" [] sw = "6" -> "7" [] sw = "7" -> "8"
          [] sw = "8" -> "9" [] sw = "9" -> ":" [] sw = "A" -> ";" [] sw = "B" -> "<"
          [] sw = "C" -> "=" [] sw = "D" -> ">" [] sw = "E" -> "?"
          [] sw = "BROADCAST" -> "_"]

\* The mutant of DTCommand_to_array: the operand is left out.
DTCommand_to_array_CommandOnly(dtcommand) == dtcommand.command

\* DTCommand.to_array: the command, then the operand if there is one
DTCommand_to_array(dtcommand) ==
    IF dtcommand.operand = <<>> THEN dtcommand.command
    ELSE dtcommand.command \o dtcommand.operand

\* the loop of DTInstructionPacket.to_array: commands += dtcommand.to_string()
RECURSIVE CommandBytes(_)
CommandBytes(dtcommands) ==
    IF dtcommands = <<>> THEN <<>>
    ELSE DTCommand_to_array(Head(dtcommands)) \o CommandBytes(Tail(dtcommands))

\* DTInstructionPacket.to_array
DTInstructionPacket_to_array(packet) ==
    <<DTStart>> \o <<packet.address>> \o CommandBytes(packet.dtcommands) \o <<DTStop>>

\* C3000Protocol.forge_packet for a list of DTCommand
forge_packet_of_list(address, dtcommands, execute) ==
    DTInstructionPacket(address,
        IF execute THEN Append(dtcommands, DTCommand(CMD_EXECUTE, <<>>))
        ELSE dtcommands)

\* the lists of commands forged: none, one or several commands, with and
\* without operand
PacketCommands ==
    {<<>>,
     <<DTCommand(CMD_PUMP, IntToStr(1200))>>,
     <<DTCommand(CMD_REPORT_STATUS, <<>>)>>,
     <<DTCommand(CMD_VALVE_INPUT, <<>>), DTCommand(CMD_PUMP, IntToStr(1200))>>,
     <<DTCommand(CMD_TOPVELOCITY, IntToStr(3000)), DTCommand(CMD_VALVE_OUTPUT, <<>>),
       DTCommand(CMD_DELIVER, IntToStr(24))>>}

\* a pump configured with one of the switches, and a list of commands to
\* forge with or without execute
InitPacket ==
    /\ lock = FALSE
    /\ tpc = [t \in Threads |-> "idle"]
    /\ waiting = <<>>
    /\ tops = [t \in Threads |-> <<>>]
    /\ tres = [t \in Threads |-> "none"]
    /\ ncalls = [t \in Threads |-> 0]
    /\ inBuf = <<>>
    /\ onWire = {}
    /\ qlock = <<>>
    /\ \E sw \in DOMAIN C3000SwitchToAddress, dtcommands \in PacketCommands,
          execute \in BOOLEAN :
          /\ pumpObj = C3000Controller("water", C3000SwitchToAddress[sw], SyringeVolume,
                                       MICRO_STEP_MODE_2, 6000)
          /\ last = [op |-> "given",
                     args |-> [switch |-> sw, dtcommands |-> dtcommands,
                               execute |-> execute]]
    /\ dev = [pos |-> 0, valve |-> "i", vel |-> 6000, init |-> TRUE, busy |-> 0,
              fails |-> 0, stuck |-> 0]
    /\ phase = "ready"

\* forge_packet(dtcommands, execute).to_array()
CallForgePacket ==
    /\ phase = "ready"
    /\ last' = [op |-> "forge_packet", args |-> last.args,
                ret |-> DTInstructionPacket_to_array(
                            forge_packet_of_list(pumpObj.address, last.args.dtcommands,
                                                 last.args.execute))]
    /\ phase' = "returned"
    /\ UNCHANGED <<pumpObj, dev, busVars, qlock>>

NextPacket ==
    \/ CallForgePacket

SpecPacket == InitPacket /\ [][NextPacket]_vars

(***************************************************************************)
(* C24: the bytes of a forged packet                                       *)
(***************************************************************************)
\* opcode then operand of each command, in order
RECURSIVE C24_Body(_)
C24_Body(dtcommands) ==
    IF dtcommands = <<>> THEN <<>>
    ELSE Head(dtcommands).command \o Head(dtcommands).operand
         \o C24_Body(Tail(dtcommands))

\* C24: a forged packet serializes to '/', the address byte, for each
\* command in order its opcode followed by its operand (if any), 'R' if
\* and only if execute is requested, and carriage return; with switch '9'
\* (address ':') a pump command with operand 1200 and execute serializes
\* to /:P1200R and carriage return.
C24_PacketBytes ==
    Returned("forge_packet") =>
        /\ last.ret = <<"/", C3000SwitchToAddress[last.args.switch]>>
                         \o C24_Body(last.args.dtcommands)
                         \o (IF last.args.execute THEN <<"R">> ELSE <<>>)
                         \o <<"<CR>">>
        /\ (/\ last.args.switch = "9"
            /\ last.args.dtcommands = <<DTCommand(<<"P">>, <<"1", "2", "0", "0">>)>>
            /\ last.args.execute) =>
               last.ret = <<"/", ":", "P", "1", "2", "0", "0", "R", "<CR>">>

\* the packet of the scenario has been serialized
C24_Witness ==
    /\ Returned("forge_packet")
    /\ last.args.switch = "9"
    /\ last.args.execute
    /\ last.ret = <<"/", ":", "P", "1", "2", "0", "0", "R", "<CR>">>

(***************************************************************************)
(* DTStatus.decode on the lines a pump may send (SpecDecode)               *)
(***************************************************************************)
\* the lines read: well-formed frames of every status with and without
\* data, bytes that are no text, and texts cut short
DecodeLines ==
    {Frame(status, data) :
        status \in StatusBytes, data \in {<<>>, <<"0">>, <<"3", "0", "0", "0">>, <<"i">>}}
    \cup {<<DTStart, BadByte, "<CR>", LF>>, <<BadByte>>,
          <<DTStart, "0", ETX, "<CR>", LF>>, <<DTStart, "<CR>", LF>>, <<"<CR>", LF>>, <<>>}

InitDecode ==
    /\ lock = FALSE
    /\ tpc = [t \in Threads |-> "idle"]
    /\ waiting = <<>>
    /\ tops = [t \in Threads |-> <<>>]
    /\ tres = [t \in Threads |-> "none"]
    /\ ncalls = [t \in Threads |-> 0]
    /\ inBuf = <<>>
    /\ onWire = {}
    /\ qlock = <<>>
    /\ pumpObj = C3000Controller("water", "1", SyringeVolume, MICRO_STEP_MODE_2, 6000)
    /\ dev = [pos |-> 0, valve |-> "i", vel |-> 6000, init |-> TRUE, busy |-> 0,
              fails |-> 0, stuck |-> 0]
    /\ \E response \in DecodeLines : last = [op |-> "given", args |-> [response |-> response]]
    /\ phase = "ready"

\* C3000Protocol.decode_packet(response): DTStatus(response).decode()
CallDecodePacket ==
    /\ phase = "ready"
    /\ last' = [op |-> "decode_packet", args |-> last.args,
                ret |-> decode_packet(last.args.response)]
    /\ phase' = "returned"
    /\ UNCHANGED <<pumpObj, dev, busVars, qlock>>

NextDecode ==
    \/ CallDecodePacket

SpecDecode == InitDecode /\ [][NextDecode]_vars

(***************************************************************************)
(* C25: decode does not raise                                              *)
(***************************************************************************)
\* the line decoded is a well-formed frame
C25_WellFormed(status, data) == last.args.response = Frame(status, data)

C25_NoText == \E i \in 1..Len(last.args.response) : last.args.response[i] = BadByte

\* C25: decode never signals failure by an exception: for a well-formed
\* frame it returns (address, status, payload), and for bytes that are no
\* valid text it returns None.
\* (Refuted: a text with fewer than two characters left after stripping
\* raises IndexError.)
C25_DecodeNeverRaises ==
    Returned("decode_packet") =>
        /\ last.ret.kind \in {"tuple", "None"}
        /\ \A status \in StatusBytes, data \in {<<>>, <<"0">>, <<"3", "0", "0", "0">>, <<"i">>} :
               C25_WellFormed(status, data) =>
                   last.ret = [kind |-> "tuple", address |-> "0", status |-> status,
                               data |-> data]
        /\ C25_NoText => last.ret = [kind |-> "None"]

\* what holds: frames and bytes that are no text are decoded as claimed;
\* every other line raises IndexError
C25_DecodeOrIndexError ==
    Returned("decode_packet") =>
        /\ \A status \in StatusBytes, data \in {<<>>, <<"0">>, <<"3", "0", "0", "0">>, <<"i">>} :
               C25_WellFormed(status, data) =>
                   last.ret = [kind |-> "tuple", address |-> "0", status |-> status,
                               data |-> data]
        /\ C25_NoText => last.ret = [kind |-> "None"]
        /\ last.ret.kind = "IndexError" <=>
               last.args.response \in {<<DTStart, "0", ETX, "<CR>", LF>>,
                                       <<DTStart, "<CR>", LF>>, <<"<CR>", LF>>, <<>>}

(***************************************************************************)
(* volume_to_step and step_to_volume on a grid of volumes (SpecRound)      *)
(***************************************************************************)
\* the syringes of the grid: 2.5 ml and 5 ml, in either micro step mode
RoundSyringes == {SyringeVolume \div 2, SyringeVolume}

InitRound ==
    /\ lock = FALSE
    /\ tpc = [t \in Threads |-> "idle"]
    /\ waiting = <<>>
    /\ tops = [t \in Threads |-> <<>>]
    /\ tres = [t \in Threads |-> "none"]
    /\ ncalls = [t \in Threads |-> 0]
    /\ inBuf = <<>>
    /\ onWire = {}
    /\ qlock = <<>>
    /\ \E total_volume \in RoundSyringes, mode \in {MICRO_STEP_MODE_0, MICRO_STEP_MODE_2} :
           pumpObj = C3000Controller("water", "1", total_volume, mode, 6000)
    /\ dev = [pos |-> 0, valve |-> "i", vel |-> 6000, init |-> TRUE, busy |-> 0,
              fails |-> 0, stuck |-> 0]
    /\ \E volume_in_ml \in 0..SyringeVolume :
           /\ volume_in_ml <= pumpObj.total_volume
           /\ last = [op |-> "given", args |-> [volume_in_ml |-> volume_in_ml]]
    /\ phase = "ready"

\* pump.volume_to_step(volume_in_ml)
CallVolumeToStep ==
    /\ phase = "ready"
    /\ last' = [op |-> "volume_to_step", args |-> last.args,
                ret |-> volume_to_step(pumpObj, last.args.volume_in_ml)]
    /\ phase' = "stepped"
    /\ UNCHANGED <<pumpObj, dev, busVars, qlock>>

\* pump.step_to_volume(step) on the steps just computed
CallStepToVolume ==
    /\ phase = "stepped"
    /\ last' = [op |-> "step_to_volume",
                args |-> [volume_in_ml |-> last.args.volume_in_ml, step |-> last.ret],
                ret |-> step_to_volume(pumpObj, last.ret)]
    /\ phase' = "returned"
    /\ UNCHANGED <<pumpObj, dev, busVars, qlock>>

NextRound ==
    \/ CallVolumeToStep
    \/ CallStepToVolume

SpecRound == InitRound /\ [][NextRound]_vars

(***************************************************************************)
(* C26: the rounding bound of the round trip                               *)
(***************************************************************************)
\* |a - b|
C26_Dist(a, b) == IF a >= b THEN a - b ELSE b - a

\* C26: for every volume v of the grid with 0 <= v <= total_volume,
\* step_to_volume(volume_to_step(v)) differs from v by at most
\* 0.5 / steps_per_ml (in ticks: 2 * steps_per_ml * |back - v| <= VolDen).
C26_RoundTripBound ==
    Returned("step_to_volume") =>
        2 * pumpObj.steps_per_ml * C26_Dist(last.ret, last.args.volume_in_ml) <= VolDen

\* a volume half way between two steps: the round trip is off by exactly
\* half a step
C26_Witness ==
    /\ Returned("step_to_volume")
    /\ last.ret # last.args.volume_in_ml
    /\ 2 * pumpObj.steps_per_ml * C26_Dist(last.ret, last.args.volume_in_ml) = VolDen

(***************************************************************************)
(* C27: the recursion depth of transfer (SpecTransfer)                     *)
(***************************************************************************)
\* the rounds of the last transfer: each nested call writes one pump command
C27_Rounds == Len(SelectSeq(last.cmds, LAMBDA cmd : Head(cmd) = "P"))

\* the volume the syringe had room for when transfer was called (ticks)
C27_FreeVolume == pumpObj.total_volume - step_to_volume(pumpObj, last.dev0.pos)

\* C27: the number of pump/deliver rounds (the recursion depth) of transfer
\* is at most requested volume / pump capacity, rounded up, for every
\* requested volume > 0 and every initial plunger position.
\* (Refuted: on a full syringe the rounds go on until RecursionError.)
C27_RoundsBoundedByCapacity ==
    (Returned("transfer") /\ last.args.fates = <<>>) =>
        C27_Rounds <= CeilDiv(last.args.volume_in_ml, pumpObj.total_volume)

\* what holds: with room left in the syringe the rounds are the requested
\* volume over the room there was, rounded up; on a full syringe there are
\* as many rounds as the interpreter allows nested calls
C27_RoundsByFreeVolume ==
    (Returned("transfer") /\ last.args.fates = <<>>) =>
        IF C27_FreeVolume > 0
        THEN /\ last.exc = "none"
             /\ C27_Rounds = CeilDiv(last.args.volume_in_ml, C27_FreeVolume)
        ELSE /\ last.exc = "RecursionError"
             /\ C27_Rounds = MaxRecursion

(***************************************************************************)
(* The conversion factor of a syringe (SpecSyringe)                        *)
(***************************************************************************)
\* the syringes configured: 2.5, 5, 12.5, 25, 7 and 9 ml, in ticks
SyringeSizes ==
    {SyringeVolume \div 2, SyringeVolume, (5 * SyringeVolume) \div 2, 5 * SyringeVolume,
     7 * VolDen, 9 * VolDen}

\* a controller of any of the syringes in either micro step mode, its
\* plunger at the bottom, half way, or within a few steps of the top
InitSyringe ==
    /\ lock = FALSE
    /\ tpc = [t \in Threads |-> "idle"]
    /\ waiting = <<>>
    /\ tops = [t \in Threads |-> <<>>]
    /\ tres = [t \in Threads |-> "none"]
    /\ ncalls = [t \in Threads |-> 0]
    /\ inBuf = <<>>
    /\ onWire = {}
    /\ qlock = <<>>
    /\ \E total_volume \in SyringeSizes, mode \in {MICRO_STEP_MODE_0, MICRO_STEP_MODE_2} :
           pumpObj = C3000Controller("water", "1", total_volume, mode, 6000)
    /\ \E below \in {0, 1, 3, 4, 6, 8, pumpObj.number_of_steps \div 2,
                      pumpObj.number_of_steps} :
           dev = [pos |-> pumpObj.number_of_steps - below, valve |-> "i", vel |-> 6000,
                  init |-> TRUE, busy |-> 0, fails |-> 0, stuck |-> 0]
    /\ last = [op |-> "given", args |-> [volume_in_ml |-> pumpObj.total_volume]]
    /\ phase = "ready"

\* pump.remaining_steps
CallRemainingSteps ==
    /\ phase = "ready"
    /\ Finish("remaining_steps", last.args, remaining_steps(pumpObj, NewContext(dev, <<>>)))

\* pump.remaining_volume
CallRemainingVolume ==
    /\ phase = "ready"
    /\ Finish("remaining_volume", last.args, remaining_volume(pumpObj, NewContext(dev, <<>>)))

NextSyringe ==
    \/ CallVolumeToStep
    \/ CallStepToVolume
    \/ CallRemainingSteps
    \/ CallRemainingVolume

SpecSyringe == InitSyringe /\ [][NextSyringe]_vars

(***************************************************************************)
(* C31: steps_per_ml is consistent with the syringe                        *)
(***************************************************************************)
\* steps_per_ml * total_volume = number_of_steps (total_volume in ticks)
C31_ExactFactor ==
    /\ pumpObj.steps_per_ml > 0
    /\ pumpObj.steps_per_ml * pumpObj.total_volume = pumpObj.number_of_steps * VolDen

C31_FullSyringeSteps ==
    last.op = "volume_to_step" => last.ret = pumpObj.number_of_steps

C31_ZeroTogether ==
    Returned("remaining_volume") =>
        (last.ret = 0 <=> last.dev0.pos = pumpObj.number_of_steps)

\* C31: steps_per_ml is a positive integer with steps_per_ml * total_volume
\* = number_of_steps, so volume_to_step(total_volume) = number_of_steps and
\* remaining_volume is 0 exactly when remaining_steps is 0, for every
\* configured total_volume and micro step mode.
\* (Refuted: int() drops the fraction of number_of_steps / total_volume.)
C31_ConsistentFactor ==
    /\ C31_ExactFactor
    /\ C31_FullSyringeSteps
    /\ C31_ZeroTogether

\* what holds: the three hold for a syringe whose volume divides the number
\* of steps; for any other steps_per_ml is too small, the full syringe is
\* fewer steps than number_of_steps and remaining_volume is negative with
\* the plunger at the top
C31_ConsistentWhenDividing ==
    IF (pumpObj.number_of_steps * VolDen) % pumpObj.total_volume = 0
    THEN C31_ConsistentFactor
    ELSE /\ pumpObj.steps_per_ml > 0
         /\ pumpObj.steps_per_ml * pumpObj.total_volume < pumpObj.number_of_steps * VolDen
         /\ last.op = "volume_to_step" => last.ret < pumpObj.number_of_steps
         /\ Returned("remaining_volume") =>
                /\ last.dev0.pos = pumpObj.number_of_steps => last.ret < 0
                /\ last.ret = 0 => last.dev0.pos < pumpObj.number_of_steps

(***************************************************************************)
(* set_top_velocity on a pump that takes the velocity late (SpecVelocity)  *)
(***************************************************************************)
\* max_repeat values tried for set_top_velocity
MaxSetAttempts == 3

\* the pump answers every velocity query and rejects the first `rejected`
\* set commands with an error status, keeping its velocity
RejectScript(rejected) ==
    [i \in 1..(2 * rejected) |-> IF i % 2 = 1 THEN OkFate ELSE StatusFate("i")]

InitVelocity ==
    /\ lock = FALSE
    /\ tpc = [t \in Threads |-> "idle"]
    /\ waiting = <<>>
    /\ tops = [t \in Threads |-> <<>>]
    /\ tres = [t \in Threads |-> "none"]
    /\ ncalls = [t \in Threads |-> 0]
    /\ inBuf = <<>>
    /\ onWire = {}
    /\ qlock = <<>>
    /\ pumpObj \in {C3000Controller("water", "1", SyringeVolume, m, 6000) :
                       m \in {MICRO_STEP_MODE_0, MICRO_STEP_MODE_2}}
    /\ dev \in [pos : {0}, valve : {"i", "o"}, vel : {1000, 3000, 6000}, init : {TRUE},
                busy : {0}, fails : {0}, stuck : {0}]
    /\ phase = "ready"
    /\ last = <<>>

CallSetTopVelocityRepeat ==
    /\ phase = "ready"
    /\ \E top_velocity \in {1000, 3000, 6000}, max_repeat \in 1..MaxSetAttempts,
          secure \in BOOLEAN, rejected \in 0..MaxSetAttempts :
          Finish("set_top_velocity",
                 [top_velocity |-> top_velocity, max_repeat |-> max_repeat,
                  secure |-> secure, fates |-> RejectScript(rejected)],
                 set_top_velocity(pumpObj, NewContext(dev, RejectScript(rejected)),
                                  top_velocity, max_repeat, secure))

NextVelocity ==
    \/ CallSetTopVelocityRepeat

SpecVelocity == InitVelocity /\ [][NextVelocity]_vars

(***************************************************************************)
(* C32: when secure set_top_velocity fails                                 *)
(***************************************************************************)
\* the set commands the last call sent
C32_Sets == Len(SelectSeq(last.cmds, LAMBDA cmd : Head(cmd) = "V"))

C32_SecureCall == Returned("set_top_velocity") /\ last.args.secure

\* C32: set_top_velocity with secure=True fails with ControllerRepeatedError
\* only if the velocity of the device still differs from the target after
\* each of the max_repeat set commands: if the device adopts the velocity
\* after the k-th set command for any k <= max_repeat (k = max_repeat
\* included), the call returns True.
\* (Refuted: the velocity is not read again after the last set command.)
C32_FailsOnlyIfNeverAdopted ==
    C32_SecureCall =>
        /\ last.exc = "ControllerRepeatedError" => dev.vel # last.args.top_velocity
        /\ dev.vel = last.args.top_velocity => (last.exc = "none" /\ last.ret = TRUE)

\* what holds: the call returns True when the device has the velocity
\* before the call or adopts it with a set command before the last one
\* allowed; once max_repeat set commands are sent the call fails, whether
\* the device took the last one or not
C32_FailsAfterLastSet ==
    C32_SecureCall =>
        /\ last.exc \in {"none", "ControllerRepeatedError"}
        /\ C32_Sets <= last.args.max_repeat
        /\ last.exc = "ControllerRepeatedError" <=> C32_Sets = last.args.max_repeat
        /\ last.exc = "none" =>
               (last.ret = TRUE /\ dev.vel = last.args.top_velocity)

\* the device adopts the velocity with the last set command allowed, and
\* the call fails
C32_AdoptedAtLastSet ==
    /\ C32_SecureCall
    /\ last.args.max_repeat = MaxSetAttempts
    /\ C32_Sets = MaxSetAttempts
    /\ last.dev0.vel # last.args.top_velocity
    /\ dev.vel = last.args.top_velocity
    /\ last.exc = "ControllerRepeatedError"

(***************************************************************************)
(* Sequences of plunger moves on a pump without faults (SpecPlunger)       *)
(***************************************************************************)
InitPlunger ==
    /\ lock = FALSE
    /\ tpc = [t \in Threads |-> "idle"]
    /\ waiting = <<>>
    /\ tops = [t \in Threads |-> <<>>]
    /\ tres = [t \in Threads |-> "none"]
    /\ ncalls = [t \in Threads |-> 0]
    /\ inBuf = <<>>
    /\ onWire = {}
    /\ qlock = <<>>
    /\ pumpObj \in {C3000Controller("water", "1", SyringeVolume, m, 6000) :
                       m \in {MICRO_STEP_MODE_0, MICRO_STEP_MODE_2}}
    /\ dev \in [pos : {0, pumpObj.number_of_steps \div 2, pumpObj.number_of_steps},
                valve : {"i"}, vel : {6000}, init : {TRUE}, busy : {0}, fails : {0},
                stuck : {0}]
    /\ phase = "ready"
    /\ last = <<>>

CallPumpIdle ==
    /\ phase = "ready"
    /\ dev.busy = 0
    /\ \E volume_in_ml \in Volumes, style \in Styles :
          Finish("pump", [volume_in_ml |-> volume_in_ml, style |-> style],
                 pump(pumpObj, NewContext(dev, <<>>), volume_in_ml, style.valve,
                      style.speed, style.wait, style.secure))

CallDeliverIdle ==
    /\ phase = "ready"
    /\ dev.busy = 0
    /\ \E volume_in_ml \in Volumes, style \in Styles :
          Finish("deliver", [volume_in_ml |-> volume_in_ml, style |-> style],
                 deliver(pumpObj, NewContext(dev, <<>>), volume_in_ml, style.valve,
                         style.speed, style.wait, style.secure))

CallGoToVolumeIdle ==
    /\ phase = "ready"
    /\ dev.busy = 0
    /\ \E volume_in_ml \in Volumes, style \in Styles :
          Finish("go_to_volume", [volume_in_ml |-> volume_in_ml, style |-> style],
                 go_to_volume(pumpObj, NewContext(dev, <<>>), volume_in_ml,
                              style.speed, style.wait, style.secure))

CallTransferIdle ==
    /\ phase = "ready"
    /\ dev.busy = 0
    /\ \E volume_in_ml \in TransferVolumes :
          Finish("transfer", [volume_in_ml |-> volume_in_ml],
                 transfer(pumpObj, NewContext(dev, <<>>), volume_in_ml, "I", "O",
                          OptNone, OptNone))

\* the caller waits for a pump it left moving
CallWaitUntilIdle ==
    /\ phase = "ready"
    /\ dev.busy > 0
    /\ Finish("wait_until_idle", <<>>, wait_until_idle(pumpObj, NewContext(dev, <<>>)))

NextPlunger ==
    \/ CallPumpIdle
    \/ CallDeliverIdle
    \/ CallGoToVolumeIdle
    \/ CallTransferIdle
    \/ CallWaitUntilIdle
    \/ GoOn

SpecPlunger == InitPlunger /\ [][NextPlunger]_vars

(***************************************************************************)
(* C33: the plunger stays within the syringe                               *)
(***************************************************************************)
\* the plunger commands among cmds, in the order written
C33_PlungerCmds(cmds) == SelectSeq(cmds, LAMBDA cmd : Head(cmd) \in {"P", "D", "A"})

\* every command of moves fits the position the plunger has when it is
\* written, the plunger being at pos before the first
RECURSIVE C33_Fit(_, _)
C33_Fit(moves, pos) ==
    IF moves = <<>> THEN TRUE
    ELSE LET n == StrToInt(Tail(Head(moves)))
         IN  CASE Head(Head(moves)) = "P" ->
                    /\ n <= pumpObj.number_of_steps - pos
                    /\ C33_Fit(Tail(moves), pos + n)
               [] Head(Head(moves)) = "D" ->
                    /\ n <= pos
                    /\ C33_Fit(Tail(moves), pos - n)
               [] OTHER ->
                    /\ n <= pumpObj.number_of_steps
                    /\ C33_Fit(Tail(moves), n)

\* C33: after any sequence of pump, deliver, go_to_volume and transfer
\* calls with non-negative volumes, each issued while the pump is idle, the
\* plunger is within [0, number_of_steps]: no P command is sent with more
\* steps than number_of_steps minus the current position, no D command
\* with more steps than the current position, no A command with a target
\* above number_of_steps.
C33_PlungerWithinSyringe ==
    /\ dev.pos \in 0..pumpObj.number_of_steps
    /\ phase = "returned" => C33_Fit(C33_PlungerCmds(last.cmds), last.dev0.pos)

\* a deliver of more than the syringe holds is refused after calls that
\* left the syringe half full: no D command is written
C33_Witness ==
    /\ Returned("deliver")
    /\ last.dev0.pos = pumpObj.number_of_steps \div 2
    /\ last.args.volume_in_ml = SyringeVolume
    /\ last.ret = FALSE
    /\ C33_PlungerCmds(last.cmds) = <<>>

(***************************************************************************)
(* PumpIO.write_and_readline on a serial port that can fail                *)
(* (SpecBusFaulty): reset_input_buffer and write of the serial port raise  *)
(* SerialException when the port is closed or the adapter is unplugged.    *)
(***************************************************************************)
\* self.flush_input() raises: the exception leaves write_and_readline, no
\* statement of which releases the lock on this path
FlushInputFails(t) ==
    /\ tpc[t] = "flush"
    /\ tops' = [tops EXCEPT ![t] = Append(@, "flush")]
    /\ tres' = [tres EXCEPT ![t] = "SerialException"]
    /\ tpc' = [tpc EXCEPT ![t] = "idle"]
    /\ UNCHANGED <<lock, waiting, ncalls, inBuf, onWire>>
    /\ UNCHANGED <<pumpVars, qlock>>

\* self.write(packet) raises: as above
WriteFails(t) ==
    /\ tpc[t] = "write"
    /\ tops' = [tops EXCEPT ![t] = Append(@, "write")]
    /\ tres' = [tres EXCEPT ![t] = "SerialException"]
    /\ tpc' = [tpc EXCEPT ![t] = "idle"]
    /\ UNCHANGED <<lock, waiting, ncalls, inBuf, onWire>>
    /\ UNCHANGED <<pumpVars, qlock>>

NextBusFaulty ==
    \/ \E t \in Threads : LockAcquire(t)
    \/ \E t \in Threads : LockBlock(t)
    \/ \E t \in Threads : LockWake(t)
    \/ \E t \in Threads : FlushInput(t)
    \/ \E t \in Threads : FlushInputFails(t)
    \/ \E t \in Threads : Write(t)
    \/ \E t \in Threads : WriteFails(t)
    \/ DeviceAnswer
    \/ \E t \in Threads : ReadlineMsg(t)
    \/ \E t \in Threads : ReadlineTimeout(t)
    \/ \E t \in Threads : ReleaseAndReturn(t)
    \/ \E t \in Threads : ReleaseAndRaise(t)

SpecBusFaulty == InitBus /\ [][NextBusFaulty]_vars

(***************************************************************************)
(* C34: the lock on the exits of write_and_readline                        *)
(***************************************************************************)
C34_NoTransaction == \A t \in Threads : tpc[t] \notin InTransaction

\* C34: write_and_readline releases the bus lock on every exit path: when
\* the flush or the write fails with an exception the lock is free
\* afterwards, so the lock is never held while no transaction is in
\* progress, and no later caller blocks forever.
\* (Refuted: only the return and the read timeout release the lock.)
C34_LockFreeOnEveryExit ==
    C34_NoTransaction =>
        /\ lock = FALSE
        /\ \A u \in Threads : tpc[u] = "blocked" => ENABLED LockWake(u)

\* what holds: with no transaction in progress the lock is held exactly
\* when a call has left through a failed flush or write; it is free after
\* every return and every read timeout
C34_LockLeakedByFailedFlushOrWrite ==
    C34_NoTransaction =>
        (lock = TRUE <=> \E t \in Threads : tres[t] = "SerialException")

\* the flush of one thread has failed and another caller is blocked on the
\* lock nobody holds any more
C34_Leaked ==
    \E t, u \in Threads :
        /\ tres[t] = "SerialException"
        /\ tpc[t] = "idle"
        /\ tpc[u] = "blocked"
        /\ C34_NoTransaction
        /\ lock = TRUE

(***************************************************************************)
(* C35: a truncated response in write_and_read_from_pump (SpecPump)        *)
(***************************************************************************)
\* the i-th transaction of the last call read a text cut short: nothing or
\* only the address is left after stripping
C35_TruncatedAt(i) == i <= Len(last.cmds) /\ FateAt(i).kind = "truncated"

\* C35: a response that decodes as text but is truncated is handled by
\* write_and_read_from_pump as a soft decode failure: the transaction is
\* retried (the next attempt is made while attempts are left), and the only
\* failure the caller can see is ControllerRepeatedError after max_repeat
\* attempts.
\* (Refuted: decode raises IndexError, which nothing catches.)
C35_TruncatedIsRetried ==
    (Returned("write_and_read_from_pump") /\ \E i \in 1..MaxAttempts : C35_TruncatedAt(i)) =>
        /\ last.exc \in {"none", "ControllerRepeatedError"}
        /\ last.exc = "ControllerRepeatedError" => Len(last.cmds) = last.args.max_repeat
        /\ \A i \in 1..MaxAttempts :
               (C35_TruncatedAt(i) /\ i < last.args.max_repeat) => Len(last.cmds) > i

\* what holds: the transaction that reads the truncated text is the last
\* of the call, which ends in IndexError
C35_TruncatedRaisesIndexError ==
    (Returned("write_and_read_from_pump") /\ \E i \in 1..MaxAttempts : C35_TruncatedAt(i)) =>
        /\ last.exc = "IndexError"
        /\ C35_TruncatedAt(Len(last.cmds))
        /\ \A i \in 1..(Len(last.cmds) - 1) : SoftFailure(i)

(***************************************************************************)
(* Forging several packets from one input (SpecForge).  The caller hands   *)
(* forge_packet either one DTCommand or a list object it keeps; a packet   *)
(* keeps the list object it was built with, not a copy of it.              *)
(***************************************************************************)
\* forge_packet calls made on the same input
MaxForges == 2

\* what the caller hands over: a DTCommand, or a list of DTCommand
ForgeInputs ==
    {[kind |-> "DTCommand", value |-> dtcommand] :
        dtcommand \in {DTCommand(CMD_PUMP, IntToStr(1200)),
                       DTCommand(CMD_REPORT_STATUS, <<>>)}}
    \cup {[kind |-> "list", value |-> dtcommands] : dtcommands \in PacketCommands}

\* last.list is the content of the caller's list object, last.packets the
\* packets built so far: the bytes each gave when built (built), and its
\* list of commands (own), unless that is the caller's list object (shared)
InitForge ==
    /\ lock = FALSE
    /\ tpc = [t \in Threads |-> "idle"]
    /\ waiting = <<>>
    /\ tops = [t \in Threads |-> <<>>]
    /\ tres = [t \in Threads |-> "none"]
    /\ ncalls = [t \in Threads |-> 0]
    /\ inBuf = <<>>
    /\ onWire = {}
    /\ qlock = <<>>
    /\ \E sw \in {"0", "9", "E"} :
           pumpObj = C3000Controller("water", C3000SwitchToAddress[sw], SyringeVolume,
                                     MICRO_STEP_MODE_2, 6000)
    /\ \E dtcommands \in ForgeInputs, execute \in BOOLEAN :
           last = [op |-> "given",
                   args |-> [dtcommands |-> dtcommands, execute |-> execute],
                   list |-> IF dtcommands.kind = "list" THEN dtcommands.value ELSE <<>>,
                   packets |-> <<>>]
    /\ dev = [pos |-> 0, valve |-> "i", vel |-> 6000, init |-> TRUE, busy |-> 0,
              fails |-> 0, stuck |-> 0]
    /\ phase = "ready"

\* forge_packet(dtcommands, execute) on the caller's input, once more.  For
\* a DTCommand a new list [dtcommands] is made; a list is used as it is:
\* dtcommands.append adds the execute command to the caller's list object,
\* which the packet keeps.
CallForgePacketAgain ==
    /\ phase \in {"ready", "returned"}
    /\ last.op \in {"given", "forge_packet"}
    /\ Len(last.packets) < MaxForges
    /\ \E packet \in {forge_packet_of_list(pumpObj.address,
                                           IF last.args.dtcommands.kind = "list"
                                           THEN last.list
                                           ELSE <<last.args.dtcommands.value>>,
                                           last.args.execute)} :
          last' = [op |-> "forge_packet", args |-> last.args,
                   list |-> IF last.args.dtcommands.kind = "list"
                            THEN packet.dtcommands ELSE last.list,
                   packets |-> Append(last.packets,
                                      [address |-> packet.address,
                                       shared |-> last.args.dtcommands.kind = "list",
                                       own |-> IF last.args.dtcommands.kind = "list"
                                               THEN <<>> ELSE packet.dtcommands,
                                       built |-> DTInstructionPacket_to_array(packet)])]
    /\ phase' = "returned"
    /\ UNCHANGED <<pumpObj, dev, busVars, qlock>>

NextForge ==
    \/ CallForgePacketAgain

SpecForge == InitForge /\ [][NextForge]_vars

(***************************************************************************)
(* C36: forging has no effect on its inputs                                *)
(***************************************************************************)
\* packet.to_array() of the i-th packet built, called now
C36_BytesNow(i) ==
    DTInstructionPacket_to_array(
        DTInstructionPacket(last.packets[i].address,
                            IF last.packets[i].shared THEN last.list
                            ELSE last.packets[i].own))

\* the commands the caller handed over
C36_Given ==
    IF last.args.dtcommands.kind = "list" THEN last.args.dtcommands.value
    ELSE <<last.args.dtcommands.value>>

\* C36: forge_packet leaves the caller's list of commands unchanged, so
\* forging twice from the same list with execute=True yields two packets
\* with identical bytes, each with exactly one trailing execute opcode R,
\* and the serialization of a packet does not change after it was built.
\* (Refuted: the execute command is appended to the caller's list.)
C36_NoEffectOnInputs ==
    Returned("forge_packet") =>
        /\ last.args.dtcommands.kind = "list" => last.list = last.args.dtcommands.value
        /\ \A i \in 1..Len(last.packets) :
              /\ C36_BytesNow(i) = last.packets[i].built
              /\ C36_BytesNow(i) = C36_BytesNow(1)
              /\ last.args.execute =>
                     C36_BytesNow(i) = <<"/", pumpObj.address>> \o C24_Body(C36_Given)
                                          \o <<"R", "<CR>">>

\* what holds: forging from a DTCommand, or without execute, has no effect;
\* forging from a list with execute adds one R to the caller's list each
\* time, and every packet built from the list serializes to the list as it
\* is now
C36_ExecuteGrowsTheList ==
    Returned("forge_packet") =>
        IF last.args.dtcommands.kind = "list" /\ last.args.execute
        THEN /\ last.list = last.args.dtcommands.value
                               \o Rep(Len(last.packets), DTCommand(CMD_EXECUTE, <<>>))
             /\ \A i \in 1..Len(last.packets) :
                   /\ C36_BytesNow(i) = <<"/", pumpObj.address>> \o C24_Body(C36_Given)
                                            \o Rep(Len(last.packets), "R") \o <<"<CR>">>
                   /\ last.packets[i].built = <<"/", pumpObj.address>> \o C24_Body(C36_Given)
                                                  \o Rep(i, "R") \o <<"<CR>">>
        ELSE /\ last.list = IF last.args.dtcommands.kind = "list"
                            THEN last.args.dtcommands.value ELSE <<>>
             /\ \A i \in 1..Len(last.packets) :
                   /\ C36_BytesNow(i) = last.packets[i].built
                   /\ C36_BytesNow(i) = <<"/", pumpObj.address>> \o C24_Body(C36_Given)
                                            \o (IF last.args.execute THEN <<"R">> ELSE <<>>)
                                            \o <<"<CR>">>

(***************************************************************************)
(* QLock (SpecQLock): threads acquiring and releasing one QLock, one step  *)
(* per statement of acquire and release.  qlock holds the object (lock:    *)
(* self.lock is locked, waiters: the deque, each new_lock named by the     *)
(* thread that made it, count) and the threads: pc[t] the statement thread *)
(* t is at, new_lock[t] whether the lock t made is locked, ahead[t] the    *)
(* threads that were queued when t called acquire and have not obtained    *)
(* the QLock since.                                                        *)
(***************************************************************************)
\* threads using the QLock
NumQThreads == 3

QThreads == 1..NumQThreads

\* QLock.__init__; no thread has called anything yet
InitQLock ==
    /\ lock = FALSE
    /\ tpc = [t \in Threads |-> "idle"]
    /\ waiting = <<>>
    /\ tops = [t \in Threads |-> <<>>]
    /\ tres = [t \in Threads |-> "none"]
    /\ ncalls = [t \in Threads |-> 0]
    /\ inBuf = <<>>
    /\ onWire = {}
    /\ pumpObj = <<>>
    /\ dev = <<>>
    /\ phase = "off"
    /\ last = <<>>
    /\ qlock = [lock |-> FALSE, waiters |-> <<>>, count |-> 0,
                pc |-> [t \in QThreads |-> "out"],
                new_lock |-> [t \in QThreads |-> FALSE],
                ahead |-> [t \in QThreads |-> {}]]

\* the threads that have appended their new_lock and are not through yet
Queued == {u \in QThreads : qlock.pc[u] \in {"acquire_17", "acquire_18", "acquire_19"}}

\* a thread that does not hold the QLock calls acquire()
AcquireCall(t) ==
    /\ qlock.pc[t] = "out"
    /\ qlock' = [qlock EXCEPT !.pc[t] = "acquire_12", !.ahead[t] = Queued]
    /\ UNCHANGED <<busVars, pumpVars>>

\* line 12: self.lock.acquire() (blocks while self.lock is locked)
Acquire12(t) ==
    /\ qlock.pc[t] = "acquire_12"
    /\ qlock.lock = FALSE
    /\ qlock' = [qlock EXCEPT !.lock = TRUE, !.pc[t] = "acquire_13"]
    /\ UNCHANGED <<busVars, pumpVars>>

\* line 13: if self.count
Acquire13(t) ==
    /\ qlock.pc[t] = "acquire_13"
    /\ qlock' = [qlock EXCEPT !.pc[t] = IF qlock.count > 0 THEN "acquire_14"
                                        ELSE "acquire_20"]
    /\ UNCHANGED <<busVars, pumpVars>>

\* lines 14-16: new_lock = Lock(); new_lock.acquire(); waiters.append(new_lock)
Acquire14(t) ==
    /\ qlock.pc[t] = "acquire_14"
    /\ qlock' = [qlock EXCEPT !.new_lock[t] = TRUE, !.waiters = Append(@, t),
                              !.pc[t] = "acquire_17"]
    /\ UNCHANGED <<busVars, pumpVars>>

\* line 17: self.lock.release()
Acquire17(t) ==
    /\ qlock.pc[t] = "acquire_17"
    /\ qlock' = [qlock EXCEPT !.lock = FALSE, !.pc[t] = "acquire_18"]
    /\ UNCHANGED <<busVars, pumpVars>>

\* line 18: new_lock.acquire() (blocks until release() has released it)
Acquire18(t) ==
    /\ qlock.pc[t] = "acquire_18"
    /\ qlock.new_lock[t] = FALSE
    /\ qlock' = [qlock EXCEPT !.new_lock[t] = TRUE, !.pc[t] = "acquire_19"]
    /\ UNCHANGED <<busVars, pumpVars>>

\* line 19: self.lock.acquire()
Acquire19(t) ==
    /\ qlock.pc[t] = "acquire_19"
    /\ qlock.lock = FALSE
    /\ qlock' = [qlock EXCEPT !.lock = TRUE, !.pc[t] = "acquire_20"]
    /\ UNCHANGED <<busVars, pumpVars>>

\* The mutant of Acquire20: the count is left as it is.
Acquire20NoCount(t) ==
    /\ qlock.pc[t] = "acquire_20"
    /\ qlock' = [qlock EXCEPT !.pc[t] = "acquire_21"]
    /\ UNCHANGED <<busVars, pumpVars>>

\* line 20: self.count += 1
Acquire20(t) ==
    /\ qlock.pc[t] = "acquire_20"
    /\ qlock' = [qlock EXCEPT !.count = @ + 1, !.pc[t] = "acquire_21"]
    /\ UNCHANGED <<busVars, pumpVars>>

\* line 21: self.lock.release(); acquire returns, the thread has the QLock
Acquire21(t) ==
    /\ qlock.pc[t] = "acquire_21"
    /\ qlock' = [qlock EXCEPT !.lock = FALSE, !.pc[t] = "holding",
                              !.ahead = [u \in QThreads |-> IF u = t THEN @[u] ELSE @[u] \ {t}]]
    /\ UNCHANGED <<busVars, pumpVars>>

\* the thread that has the QLock calls release()
ReleaseCall(t) ==
    /\ qlock.pc[t] = "holding"
    /\ qlock' = [qlock EXCEPT !.pc[t] = "release_24"]
    /\ UNCHANGED <<busVars, pumpVars>>

\* line 24: with self.lock (blocks while self.lock is locked)
Release24(t) ==
    /\ qlock.pc[t] = "release_24"
    /\ qlock.lock = FALSE
    /\ qlock' = [qlock EXCEPT !.lock = TRUE, !.pc[t] = "release_25"]
    /\ UNCHANGED <<busVars, pumpVars>>

\* lines 25-27: if not self.count: raise ValueError (leaving the with
\* block unlocks self.lock); self.count -= 1
Release25(t) ==
    /\ qlock.pc[t] = "release_25"
    /\ qlock' = IF qlock.count = 0
                THEN [qlock EXCEPT !.lock = FALSE, !.pc[t] = "out"]
                ELSE [qlock EXCEPT !.count = @ - 1, !.pc[t] = "release_28"]
    /\ UNCHANGED <<busVars, pumpVars>>

\* lines 28-29: if self.waiters: self.waiters.popleft().release()
Release28(t) ==
    /\ qlock.pc[t] = "release_28"
    /\ qlock' = IF qlock.waiters # <<>>
                THEN [qlock EXCEPT !.new_lock[Head(qlock.waiters)] = FALSE,
                                   !.waiters = Tail(@), !.pc[t] = "release_end"]
                ELSE [qlock EXCEPT !.pc[t] = "release_end"]
    /\ UNCHANGED <<busVars, pumpVars>>

\* the end of the with block: self.lock is unlocked, release returns
ReleaseEnd(t) ==
    /\ qlock.pc[t] = "release_end"
    /\ qlock' = [qlock EXCEPT !.lock = FALSE, !.pc[t] = "out"]
    /\ UNCHANGED <<busVars, pumpVars>>

\* QLock.locked()
locked == qlock.count > 0

NextQLock ==
    \/ \E t \in QThreads : AcquireCall(t)
    \/ \E t \in QThreads : Acquire12(t)
    \/ \E t \in QThreads : Acquire13(t)
    \/ \E t \in QThreads : Acquire14(t)
    \/ \E t \in QThreads : Acquire17(t)
    \/ \E t \in QThreads : Acquire18(t)
    \/ \E t \in QThreads : Acquire19(t)
    \/ \E t \in QThreads : Acquire20(t)
    \/ \E t \in QThreads : Acquire21(t)
    \/ \E t \in QThreads : ReleaseCall(t)
    \/ \E t \in QThreads : Release24(t)
    \/ \E t \in QThreads : Release25(t)
    \/ \E t \in QThreads : Release28(t)
    \/ \E t \in QThreads : ReleaseEnd(t)

SpecQLock == InitQLock /\ [][NextQLock]_vars

\* the threads that have completed acquire and have not called release
C38_Holders == {t \in QThreads : qlock.pc[t] = "holding"}

\* C38: QLock provides mutual exclusion: at most one thread is past acquire
\* and not yet in release at any time, and the holder count never exceeds 1.
C38_MutualExclusion == Cardinality(C38_Holders) <= 1 /\ qlock.count <= 1

\* C37: QLock grants the lock in request order: a thread calling acquire
\* later never obtains the lock before a thread that is already waiting.
\* A thread that has returned from acquire has left no thread behind that
\* was queued when it called.
C37_RequestOrder == \A t \in QThreads : qlock.pc[t] = "holding" => qlock.ahead[t] = {}

\* the threads that have completed acquire and have not released yet
C40_Owners == {t \in QThreads : qlock.pc[t] \in {"holding", "release_24", "release_25"}}

\* C40: QLock.locked() reflects ownership: it is true whenever some thread
\* has completed acquire and not yet released, and it is false once every
\* completed acquire has been matched by a release and no thread is waiting.
C40_LockedReflectsOwnership ==
    /\ C40_Owners # {} => locked
    /\ (\A t \in QThreads : qlock.pc[t] \in {"out", "release_28", "release_end"}) => ~locked

\* every thread is out of acquire and release again after a thread had
\* queued, obtained the QLock and released it, and locked() is false
C40_Witness ==
    /\ \A t \in QThreads : qlock.pc[t] = "out"
    /\ \E t \in QThreads : qlock.new_lock[t]
    /\ ~locked

\* two threads own the QLock at once and locked() is true
C40_WitnessTwoOwners == Cardinality(C40_Owners) = 2 /\ locked

(***************************************************************************)
(* Fairness (SpecQLockFair): a thread inside acquire or release, or one    *)
(* that has the QLock, goes on when it can: every thread that obtains the  *)
(* QLock eventually releases it.  No thread is bound to call acquire.      *)
(***************************************************************************)
QStep(t) ==
    \/ Acquire12(t) \/ Acquire13(t) \/ Acquire14(t) \/ Acquire17(t)
    \/ Acquire18(t) \/ Acquire19(t) \/ Acquire20(t) \/ Acquire21(t)
    \/ ReleaseCall(t) \/ Release24(t) \/ Release25(t) \/ Release28(t)
    \/ ReleaseEnd(t)

SpecQLockFair == InitQLock /\ [][NextQLock]_vars /\ \A t \in QThreads : WF_vars(QStep(t))

\* C39: QLock has no lost wake-up: if every thread that obtains the QLock
\* eventually releases it, every thread blocked in acquire eventually
\* obtains the lock (no waiter stays queued forever while the lock is
\* free), under weak fairness of the threads.  Stated for the threads that
\* have queued (line 18).
C39_QueuedEventuallyObtains == \A t \in QThreads : (qlock.pc[t] = "acquire_18") ~> (qlock.pc[t] = "holding")

\* What holds instead (C39): the wake-up is not lost, every thread queued at
\* line 18 is eventually woken by a release() and passes line 18.
C39_QueuedEventuallyWoken == \A t \in QThreads : (qlock.pc[t] = "acquire_18") ~> (qlock.pc[t] = "acquire_19")

\* What holds instead (C39): the woken thread obtains the QLock when
\* self.lock, for which it competes with every newcomer at line 19, is
\* granted with strong fairness.
C39_ObtainsUnderStrongFairness == (\A t \in QThreads : SF_vars(Acquire12(t)) /\ SF_vars(Acquire19(t)) /\ SF_vars(Release24(t))) => C39_QueuedEventuallyObtains

====
